---- MODULE Spec2Model ----
(***************************************************************************)
(* A model of the NengoDL example notebooks:                               *)
(*   docs/examples/spa-retrieval.ipynb   (get_data, accuracy, the          *)
(*                                        baseline / trained evaluation)   *)
(*   from-tensorflow.ipynb, tensorflow-models.ipynb (src/unnamed/part_000) *)
(*                                                                         *)
(* Three specifications share one set of variables:                        *)
(*   SpecGetData   get_data run one loop iteration at a time               *)
(*   SpecAccuracy  accuracy applied to bounded inputs                      *)
(*   Spec          the notebooks run top to bottom, one statement a step   *)
(* trace is the history of a notebook run: the statements executed so far, *)
(* each with the simulator it addressed and the shapes of the arrays it    *)
(* was passed.                                                             *)
(***************************************************************************)
EXTENDS Integers, Sequences, FiniteSets, TLC

VARIABLES gd, av, nb, pc, py, sims, keras, nets, trace

vars == <<gd, av, nb, pc, py, sims, keras, nets, trace>>

(***************************************************************************)
(* Bounds of the model.                                                    *)
(***************************************************************************)
MaxSeed == 3
MaxItems == 2
MaxPairs == 2
MaxExamples == 2
MaxGlobalState == 1

\* vector dimensionalities get_data is run with (vec_d)
Dims == {1, 2}

\* Python's None, and a value that may be None: <<>> or <<x>>
None == <<>>

Some(x) == <<x>>

(***************************************************************************)
(* Vectors.  A semantic pointer is [v, s]: the vector v / sqrt(s), with v  *)
(* a tuple of integers and s a positive integer.  Unit vectors and their   *)
(* sums and circular convolutions have s = 1; only normalisation gives     *)
(* another s.                                                              *)
(***************************************************************************)
RECURSIVE SumTo(_, _)
SumTo(f, n) == IF n = 0 THEN 0 ELSE f[n] + SumTo(f, n - 1)

Dot(a, b) == SumTo([j \in 1..Len(a) |-> a[j] * b[j]], Len(a))

Zeros(d) == [j \in 1..d |-> 0]

Ptr(v) == [v |-> v, s |-> 1]

\* np.zeros((n_items, 1, vec_d)): n_items rows of one time step each
ZerosArray(n_items, d) == [m \in 1..n_items |-> <<Ptr(Zeros(d))>>]

\* the j-th signed basis vector of dimension d, j in 0..2d-1
UnitVec(d, j) ==
    [k \in 1..d |-> IF k = (j \div 2) + 1 THEN (IF j % 2 = 0 THEN 1 ELSE -1) ELSE 0]

\* SemanticPointer.__add__: vector addition
VAdd(a, b) == [k \in 1..Len(a) |-> a[k] + b[k]]

\* SemanticPointer.__mul__ of two pointers: circular convolution
\*   (a * b)[k] = sum_j a[j] b[(k - j) mod d]       (0-based k, j)
CConv(a, b) ==
    LET d == Len(a)
    IN [k \in 1..d |->
          SumTo([j \in 1..d |-> a[j] * b[((k - j) % d) + 1]], d)]

\* SemanticPointer.normalize: v /= norm(v) when norm(v) > 0
Normalize(p) ==
    LET nn == Dot(p.v, p.v)
    IN IF nn > 0 THEN [v |-> p.v, s |-> p.s * nn] ELSE p

(***************************************************************************)
(* np.random.RandomState(vocab_seed): a deterministic stream decided by    *)
(* the seed alone.  The generator is abstracted to a full-period linear    *)
(* congruential generator over 16 states.                                  *)
(***************************************************************************)
RandomState(seed) == seed % 16

\* the states the module-level generator np.random may be in when
\* get_data is called
GlobalStates == 0..MaxGlobalState

\* rng of get_data: its own generator, seeded with vocab_seed; np_random
\* is the state of the module-level generator, which is not consulted
RngModuleLevel(vocab_seed, np_random) == np_random

Rng(vocab_seed, np_random) == RandomState(vocab_seed)

RngNext(s) == (5 * s + 3) % 16

\* SemanticPointer(N, rng): a random unit vector; one draw
RandUnit(s, d) == Ptr(UnitVec(d, (RngNext(s) \div 2) % (2 * d)))

\* rng.randint(high): an integer in 0..high-1; one draw
RandInt(s, high) == (RngNext(s) \div 4) % high

\* rng.randint(high) has no integer to draw when high <= 0 and raises
RandIntRaises(high) == high <= 0

(***************************************************************************)
(* get_data                                                                *)
(***************************************************************************)
\* f"ROLE_{n}_{i}", f"FILLER_{n}_{i}", "TRACE_" + str(n)
RoleNameWithoutExample(n, i) == "ROLE_" \o ToString(i)

RoleName(n, i) == "ROLE_" \o ToString(n) \o "_" \o ToString(i)

FillerName(n, i) == "FILLER_" \o ToString(n) \o "_" \o ToString(i)

TraceName(n) == "TRACE_" \o ToString(n)

\* [f"ROLE_{n}_{i}" for i in range(pairs_per_item)]
RoleNames(n, pairs) == [i \in 1..pairs |-> RoleName(n, i - 1)]

FillerNames(n, pairs) == [i \in 1..pairs |-> FillerName(n, i - 1)]

\* zip(role_names, filler_names): the i-th role with the i-th filler
ZipMisaligned(xs, ys) ==
    [i \in 1..Len(xs) |-> <<xs[i], ys[(i % Len(ys)) + 1]>>]

Zip(xs, ys) ==
    LET m == IF Len(xs) < Len(ys) THEN Len(xs) ELSE Len(ys)
    IN [i \in 1..m |-> <<xs[i], ys[i]>>]

\* position of key in vocab.keys, 0 when absent
KeyIndex(keys, key) ==
    IF \E i \in 1..Len(keys) : keys[i] = key
    THEN CHOOSE i \in 1..Len(keys) : keys[i] = key
    ELSE 0

\* Vocabulary.add(key, p): a key already present is refused
VocabAdd(voc, key, p) ==
    IF KeyIndex(voc.keys, key) # 0
    THEN [voc EXCEPT !.err = "ValidationError"]
    ELSE [voc EXCEPT !.keys = Append(@, key), !.vectors = Append(@, p)]

\* Vocabulary.__getitem__(key): the pointer of key; an absent key gets a
\* new random pointer (create_pointer, one draw) and is added
VocabGet(voc, key) ==
    IF KeyIndex(voc.keys, key) # 0
    THEN voc
    ELSE [VocabAdd(voc, key, RandUnit(voc.rng, voc.d)) EXCEPT !.rng = RngNext(voc.rng)]

VocabAt(voc, key) == voc.vectors[KeyIndex(voc.keys, key)]

\* the keys read back for the cue and the target of example n
TargetKeyFirst(n, cue_idx) == FillerName(n, 0)

CueKey(n, cue_idx) == RoleName(n, cue_idx)

TargetKey(n, cue_idx) == FillerName(n, cue_idx)

\* Vocabulary.parse("R0 * F0+R1 * F1+..."): names are looked up left to
\* right (creating them), products are circular convolutions, "+" adds.
\* Gives [voc, value] after evaluating the first k terms.
RECURSIVE ParseTerms(_, _, _)
ParseTerms(voc, terms, k) ==
    IF k = 0
    THEN [voc |-> voc, value |-> Zeros(voc.d)]
    ELSE LET prev == ParseTerms(voc, terms, k - 1)
             v1 == VocabGet(prev.voc, terms[k][1])
             v2 == VocabGet(v1, terms[k][2])
             prod == CConv(VocabAt(v2, terms[k][1]).v, VocabAt(v2, terms[k][2]).v)
         IN [voc |-> v2,
             value |-> IF k = 1 THEN prod ELSE VAdd(prev.value, prod)]

\* Vocabulary.parse evaluates its text as an expression; the join of no
\* terms is the empty text, which is no expression
ParseRaises(terms) == Len(terms) = 0

\* spa.Vocabulary(dimensions=vec_d, rng=rng, max_similarity=1)
Vocabulary(d, rng) == [d |-> d, rng |-> rng, keys |-> <<>>, vectors |-> <<>>, err |-> "no"]

\* get_data up to the loop: the generator, the vocabulary, the zero arrays;
\* np_random is the state of the module-level generator np.random at the
\* call
GetDataInitReturnsWithoutPairs(n_items, pairs_per_item, vec_d, vocab_seed, np_random) ==
    [n_items |-> n_items, pairs_per_item |-> pairs_per_item, vec_d |-> vec_d,
     vocab_seed |-> vocab_seed,
     np_random |-> np_random,
     vocab |-> Vocabulary(vec_d, Rng(vocab_seed, np_random)),
     traces |-> ZerosArray(n_items, vec_d),
     cues |-> ZerosArray(n_items, vec_d),
     targets |-> ZerosArray(n_items, vec_d),
     cue_idx |-> <<>>,
     terms |-> <<>>,
     n |-> 0,
     status |-> IF n_items = 0 \/ pairs_per_item = 0 THEN "returned" ELSE "loop"]

GetDataInit(n_items, pairs_per_item, vec_d, vocab_seed, np_random) ==
    [n_items |-> n_items, pairs_per_item |-> pairs_per_item, vec_d |-> vec_d,
     vocab_seed |-> vocab_seed,
     np_random |-> np_random,
     vocab |-> Vocabulary(vec_d, Rng(vocab_seed, np_random)),
     traces |-> ZerosArray(n_items, vec_d),
     cues |-> ZerosArray(n_items, vec_d),
     targets |-> ZerosArray(n_items, vec_d),
     cue_idx |-> <<>>,
     terms |-> <<>>,
     n |-> 0,
     status |-> IF n_items = 0 THEN "returned" ELSE "loop"]

\* one iteration of "for n in range(n_items)"
GetDataIter(st) ==
    LET n == st.n
        terms == Zip(RoleNames(n, st.pairs_per_item), FillerNames(n, st.pairs_per_item))
    IN IF ParseRaises(terms)
       THEN \* vocab.parse("") : eval of an empty expression
            [st EXCEPT !.status = "SyntaxError"]
       ELSE LET parsed == ParseTerms(st.vocab, terms, Len(terms))
                trace_ptr == Normalize(Ptr(parsed.value))
                voc1 == VocabAdd(parsed.voc, TraceName(n), trace_ptr)
                cue_idx == RandInt(voc1.rng, st.pairs_per_item)
                voc2 == [voc1 EXCEPT !.rng = RngNext(voc1.rng)]
                voc3 == VocabGet(voc2, CueKey(n, cue_idx))
                voc4 == VocabGet(voc3, TargetKey(n, cue_idx))
            IN IF voc1.err # "no"
               THEN [st EXCEPT !.vocab = voc1, !.status = voc1.err]
               ELSE IF RandIntRaises(st.pairs_per_item)
               THEN [st EXCEPT !.vocab = voc1, !.status = "ValueError"]
               ELSE [st EXCEPT
                       !.vocab = voc4,
                       !.terms = Append(@, terms),
                       !.cue_idx = Append(@, cue_idx),
                       !.traces[n + 1][1] = VocabAt(voc4, TraceName(n)),
                       !.cues[n + 1][1] = VocabAt(voc4, CueKey(n, cue_idx)),
                       !.targets[n + 1][1] = VocabAt(voc4, TargetKey(n, cue_idx)),
                       !.n = n + 1,
                       !.status = IF n + 1 = st.n_items THEN "returned" ELSE "loop"]

GdIdle == [status |-> "idle"]

AvIdle == [status |-> "idle"]

FlowIdle ==
    /\ nb = "none"
    /\ pc = 0
    /\ py = <<>>
    /\ sims = <<>>
    /\ keras = <<>>
    /\ nets = <<>>
    /\ trace = <<>>

\* a call get_data(n_items, pairs_per_item, vec_d, vocab_seed), made with
\* the module-level generator in any of its states
GetDataCall ==
    /\ \E n_items \in 0..MaxItems, pairs \in 0..MaxPairs, d \in Dims, seed \in 0..MaxSeed,
            g \in GlobalStates :
          gd = GetDataInit(n_items, pairs, d, seed, g)
    /\ av = AvIdle
    /\ FlowIdle

GetDataStep ==
    /\ gd.status = "loop"
    /\ gd' = GetDataIter(gd)
    /\ UNCHANGED <<av, nb, pc, py, sims, keras, nets, trace>>

SpecGetData == GetDataCall /\ [][GetDataStep]_vars

(***************************************************************************)
(* accuracy                                                                *)
(***************************************************************************)
\* a Python index into an axis of length len (negative: from the end),
\* as a 1-based position
PyIndex(len, t) == IF t < 0 THEN len + t + 1 ELSE t + 1

\* output[:, t_step, :]
AtStep(output, t_step) ==
    [m \in 1..Len(output) |-> output[m][PyIndex(Len(output[m]), t_step)]]

\* np.dot(vocab.vectors, output.T): sims[i][m], vocabulary item i with example m
Similarities(vectors, out) ==
    [i \in 1..Len(vectors) |-> [m \in 1..Len(out) |-> Dot(vectors[i], out[m])]]

\* np.argmax(sims, axis=0): per example, the first index of the largest entry
ArgMax(sm, m) ==
    CHOOSE i \in 1..Len(sm) :
        /\ \A j \in 1..Len(sm) : sm[j][m] <= sm[i][m]
        /\ \A j \in 1..(i - 1) : sm[j][m] < sm[i][m]

\* np.all(vocab.vectors[idxs] == targets[:, 0], axis=1)
Hits(vectors, idxs, targets) ==
    [m \in 1..Len(idxs) |-> vectors[idxs[m]] = targets[m][1]]

\* np.mean of a boolean array, as the fraction [num / den]
Mean(flags) ==
    [num |-> Cardinality({m \in 1..Len(flags) : flags[m]}), den |-> Len(flags)]

\* accuracy(output, vocab, targets, t_step)
Accuracy(output, vectors, targets, t_step) ==
    LET out == AtStep(output, t_step)
        sm == Similarities(vectors, out)
        idxs == [m \in 1..Len(out) |-> ArgMax(sm, m)]
        hits == Hits(vectors, idxs, targets)
    IN [sims |-> sm, idxs |-> idxs, hits |-> hits, acc |-> Mean(hits)]

\* vocabularies accuracy is applied to: two or three pairwise different
\* vectors of dimension 2
VocabVectors ==
    LET pool == {UnitVec(2, j) : j \in 0..3}
    IN {vs \in (pool \X pool) \cup (pool \X pool \X pool) :
           \A i, j \in 1..Len(vs) : i # j => vs[i] # vs[j]}

\* network outputs of one example at the evaluated time step
OutputPool == {<<0, 0>>, <<1, 0>>, <<1, 1>>, <<-1, 2>>}

\* a call accuracy(output, vocab, targets) with the default t_step = -1:
\* targets[m] is the vocabulary vector of the correct filler, index tgt[m];
\* the output holds one or two time steps, the last one drawn freely
AccuracyCall ==
    /\ \E vectors \in VocabVectors, n \in 1..MaxExamples, n_steps \in 1..2 :
         \E tgt \in [1..n -> 1..Len(vectors)], last \in [1..n -> OutputPool] :
            av = [status |-> "called",
                  vectors |-> vectors,
                  tgt |-> tgt,
                  targets |-> [m \in 1..n |-> <<vectors[tgt[m]]>>],
                  output |-> [m \in 1..n |->
                                IF n_steps = 1 THEN <<last[m]>> ELSE <<Zeros(2), last[m]>>],
                  t_step |-> -1,
                  result |-> None]
    /\ gd = GdIdle
    /\ FlowIdle

AccuracyReturn ==
    /\ av.status = "called"
    /\ av' = [av EXCEPT !.status = "returned",
                        !.result = Accuracy(av.output, av.vectors, av.targets, av.t_step)]
    /\ UNCHANGED <<gd, nb, pc, py, sims, keras, nets, trace>>

SpecAccuracy == AccuracyCall /\ [][AccuracyReturn]_vars

(***************************************************************************)
(* Tensor shapes (tuples of integers) and the functions put in TensorNodes *)
(***************************************************************************)
ShapeError == <<-1>>

RECURSIVE Numel(_)
Numel(shape) == IF shape = <<>> THEN 1 ELSE Head(shape) * Numel(Tail(shape))

\* NumPy / TensorFlow broadcasting of two shapes, aligned at the last axis
Broadcast(a, b) ==
    LET n == IF Len(a) > Len(b) THEN Len(a) ELSE Len(b)
        pa == [k \in 1..n |-> IF k <= n - Len(a) THEN 1 ELSE a[k - (n - Len(a))]]
        pb == [k \in 1..n |-> IF k <= n - Len(b) THEN 1 ELSE b[k - (n - Len(b))]]
    IN IF \A k \in 1..n : pa[k] = pb[k] \/ pa[k] = 1 \/ pb[k] = 1
       THEN [k \in 1..n |-> IF pa[k] = 1 THEN pb[k] ELSE pa[k]]
       ELSE ShapeError

\* tf.reshape(x, new): the element count must not change
Reshape(shape, new) == IF Numel(shape) = Numel(new) THEN new ELSE ShapeError

\* a Dense layer replaces the last axis by its units
DenseShape(x, units) == [x EXCEPT ![Len(x)] = units]

num_classes == 10

\* the shape a TensorNode function returns for time t (a scalar) and
\* input x of shape xs
TensorFuncReturnsT(ts, xs) == ts

SinFuncShape(ts) == Reshape(ts, <<1, 1>>)

TensorFuncShape(ts, xs) == Broadcast(ts, xs)

FuncShape(func, ts, xs) ==
    CASE func = "tensor_func" -> TensorFuncShape(ts, xs)
      [] func = "sin_func" -> SinFuncShape(ts)
      [] func = "BatchNormalization" -> xs
      [] func = "MyLayer" -> Broadcast(xs, <<1, 1>>)
      [] func = "KerasWrapper" -> DenseShape(DenseShape(xs, 128), num_classes)
      [] func = "Dense128" -> DenseShape(xs, 128)
      [] func = "Dense10" -> DenseShape(xs, num_classes)

\* TensorNode without shape_out: the function is called once with
\* placeholder inputs of batch size 1
InferShapeOut(func, shape_in) == Tail(FuncShape(func, <<>>, <<1>> \o shape_in))

(***************************************************************************)
(* Network objects.  References to other objects are [obj, attr], e.g.     *)
(* b_rate.neurons is [obj |-> "b_rate", attr |-> "neurons"].               *)
(***************************************************************************)
Ref(obj, attr) == [obj |-> obj, attr |-> attr]

Node(name, size_out) == [kind |-> "Node", name |-> name, size_out |-> size_out]

\* gain and bias None: drawn by the builder from the default distributions
Ensemble(name, n_neurons, dimensions) ==
    [kind |-> "Ensemble", name |-> name, n_neurons |-> n_neurons, dimensions |-> dimensions,
     gain |-> None, bias |-> None]

\* synapse: "Default" (not given), "None" or a time constant
Connection(pre, post, synapse) ==
    [kind |-> "Connection", name |-> "", pre |-> pre, post |-> post, synapse |-> synapse]

Probe(name, target) == [kind |-> "Probe", name |-> name, target |-> target]

\* a network of nengo.networks put inside the network
Subnetwork(name, cls) == [kind |-> "Network", name |-> name, cls |-> cls]

\* shape_in <<>>: no input; shape_out None: inferred
TensorNode(name, func, shape_in, shape_out, pass_time) ==
    [kind |-> "TensorNode", name |-> name, func |-> func, shape_in |-> shape_in,
     shape_out |-> IF shape_out = None THEN InferShapeOut(func, shape_in) ELSE shape_out[1],
     pass_time |-> pass_time]

\* name = nengo_dl.Layer(func)(source), before it is applied
LayerApp(name, func, source) ==
    [kind |-> "Layer", name |-> name, func |-> func, source |-> source]

\* the latest object bound to name
Lookup(objs, name) ==
    objs[CHOOSE i \in 1..Len(objs) :
            /\ objs[i].name = name
            /\ \A j \in (i + 1)..Len(objs) : objs[j].name # name]

\* size_out of the object a reference names
SizeOut(objs, ref) ==
    LET o == Lookup(objs, ref.obj)
    IN CASE o.kind = "Node" -> o.size_out
         [] o.kind = "Ensemble" -> IF ref.attr = "neurons" THEN o.n_neurons ELSE o.dimensions
         [] o.kind = "TensorNode" -> Numel(o.shape_out)

\* nengo_dl.Layer(func)(source): a TensorNode wrapping func, with shape_in
\* taken from the source and pass_time=False, and a Connection from the
\* source to it with synapse=None
LayerCall(objs, app) ==
    << TensorNode(app.name, app.func, <<SizeOut(objs, app.source)>>, None, FALSE),
       Connection(app.source, Ref(app.name, ""), "None") >>

\* the objects a cell adds to a network that holds objs
RECURSIVE AddObjects(_, _, _)
AddObjects(objs, specs, k) ==
    IF k = 0 THEN <<>>
    ELSE LET before == AddObjects(objs, specs, k - 1)
         IN before \o (IF specs[k].kind = "Layer"
                       THEN LayerCall(objs \o before, specs[k])
                       ELSE <<specs[k]>>)

(***************************************************************************)
(* The notebooks as programs.  A notebook is run top to bottom; pc is the  *)
(* position of the next statement in its program, py the Python globals,   *)
(* sims the simulators created so far (py.sim is the one the name sim is   *)
(* bound to, py.inwith the one whose with block is being executed).        *)
(* An exception raised by a statement ends the run (py.error).             *)
(***************************************************************************)
MaxWeight == 2

\* parameter values of a network (abstracted to one integer)
Weights == 0..MaxWeight

\* spa-retrieval.ipynb: seed = 0, dims = 32, minibatch_size = 50, n_pairs = 2
dims == 32
minibatch_size_spa == 50
n_pairs == 2
n_train_items == 5000

\* vocab_seed of the training data: seed + 1
TrainSeedSame(seed) == seed

TrainSeed(seed) == seed + 1

TestSeed(seed) == seed

\* spa-retrieval.ipynb, code cells from the test data on.  cond tells the
\* branch of "if do_training" a statement belongs to.
NetSpa ==
    << Node("trace_inp", dims), Node("cue_inp", dims),
       Subnetwork("cconv", "CircularConvolution"),
       Connection(Ref("trace_inp", ""), Ref("cconv", "input_a"), "Default"),
       Connection(Ref("cue_inp", ""), Ref("cconv", "input_b"), "Default"),
       Probe("out", Ref("cconv", "output")) >>

ProgSpaStepBeforeLoad ==
    << [op |-> "network", line |-> 136, cond |-> "any", net |-> "net", new |-> TRUE,
        params |-> "own", objs |-> NetSpa],
       [op |-> "get_data", line |-> 207, cond |-> "any", into |-> "test",
        n_items |-> minibatch_size_spa, seed_of |-> "test"],
       [op |-> "open", line |-> 278, cond |-> "any", net |-> "net",
        minibatch_size |-> Some(minibatch_size_spa), cls |-> "nengo_dl.Simulator"],
       [op |-> "step", line |-> 323, cond |-> "any", data |-> "test"],
       [op |-> "urlretrieve", line |-> 297, cond |-> "any", file |-> "spa_retrieval_params"],
       [op |-> "load_params", line |-> 304, cond |-> "any", file |-> "spa_retrieval_params"],
       [op |-> "accuracy", line |-> 324, cond |-> "any", targets |-> "test"],
       [op |-> "close", line |-> 325, cond |-> "any"] >>

ProgSpa ==
    << [op |-> "network", line |-> 136, cond |-> "any", net |-> "net", new |-> TRUE,
        params |-> "own", objs |-> NetSpa],
       [op |-> "get_data", line |-> 207, cond |-> "any", into |-> "test",
        n_items |-> minibatch_size_spa, seed_of |-> "test"],
       [op |-> "with", line |-> 213, cond |-> "any", net |-> "net",
        minibatch_size |-> Some(minibatch_size_spa), cls |-> "nengo_dl.Simulator"],
       [op |-> "step", line |-> 214, cond |-> "any", data |-> "test"],
       [op |-> "exit", line |-> 214, cond |-> "any"],
       [op |-> "accuracy", line |-> 216, cond |-> "any", targets |-> "test"],
       [op |-> "read", line |-> 239, cond |-> "any"],
       [op |-> "open", line |-> 278, cond |-> "any", net |-> "net",
        minibatch_size |-> Some(minibatch_size_spa), cls |-> "nengo_dl.Simulator"],
       [op |-> "get_data", line |-> 283, cond |-> "train", into |-> "train",
        n_items |-> n_train_items, seed_of |-> "train"],
       [op |-> "compile", line |-> 288, cond |-> "train"],
       [op |-> "fit", line |-> 289, cond |-> "train", data |-> "train"],
       [op |-> "save_params", line |-> 293, cond |-> "train", file |-> "spa_retrieval_params"],
       [op |-> "urlretrieve", line |-> 297, cond |-> "pretrained", file |-> "spa_retrieval_params"],
       [op |-> "load_params", line |-> 304, cond |-> "pretrained", file |-> "spa_retrieval_params"],
       [op |-> "step", line |-> 323, cond |-> "any", data |-> "test"],
       [op |-> "accuracy", line |-> 324, cond |-> "any", targets |-> "test"],
       [op |-> "close", line |-> 325, cond |-> "any"],
       [op |-> "read", line |-> 336, cond |-> "any"] >>


\* from-tensorflow notebook: n_in = 784, n_hidden = 64, minibatch_size = 50;
\* keras-model notebook: minibatch_size = 20; (Fashion) MNIST sizes
n_in == 784
n_hidden == 64
minibatch_size_tf == 50
minibatch_size_keras == 20
n_train == 60000
n_test == 10000

\* tf_a = Input(n_in); tf_b = Dense(n_hidden, relu)(tf_a); tf_c = Dense(n_in, relu)(tf_b)
CellKerasLayers ==
    << [op |-> "keras_layers", line |-> 72, cond |-> "any"] >>

\* with nengo.Network() as auto_net: ...
NetAuto ==
    << Node("nengo_a", n_in),
       Ensemble("nengo_b", n_hidden, 1),
       Connection(Ref("nengo_a", ""), Ref("nengo_b", "neurons"), "Default"),
       Ensemble("nengo_c", n_in, 1),
       Connection(Ref("nengo_b", "neurons"), Ref("nengo_c", "neurons"), "Default"),
       Probe("p_c", Ref("nengo_c", "neurons")) >>

\* the autoencoder network
CellAutoNet ==
    << [op |-> "network", line |-> 98, cond |-> "any", net |-> "auto_net",
        new |-> TRUE, params |-> "own", objs |-> NetAuto] >>

\* model = tf.keras.Model(tf_a, tf_c); model.predict(np.ones((minibatch_size, n_in)))
CellKerasPredict ==
    << [op |-> "keras_model", line |-> 153, cond |-> "any"],
       [op |-> "keras_predict", line |-> 154, cond |-> "any", data |-> "ones",
        shape |-> <<minibatch_size_tf, n_in>>] >>

\* sim.predict(np.ones((1, 1, n_in)))
CellAutoPredictOneRow ==
    << [op |-> "with", line |-> 172, cond |-> "any", net |-> "auto_net",
        minibatch_size |-> Some(minibatch_size_tf), cls |-> "nengo_dl.Simulator"],
       [op |-> "predict", line |-> 173, cond |-> "any", data |-> "ones",
        shape |-> <<1, 1, n_in>>],
       [op |-> "exit", line |-> 173, cond |-> "any"] >>

\* with nengo_dl.Simulator(auto_net, minibatch_size=minibatch_size) as sim: sim.predict(...)
CellAutoPredict ==
    << [op |-> "with", line |-> 172, cond |-> "any", net |-> "auto_net",
        minibatch_size |-> Some(minibatch_size_tf), cls |-> "nengo_dl.Simulator"],
       [op |-> "predict", line |-> 173, cond |-> "any", data |-> "ones",
        shape |-> <<minibatch_size_tf, 1, n_in>>],
       [op |-> "exit", line |-> 173, cond |-> "any"] >>

\* the sine input with a rate and a spiking ensemble
NetSpiking ==
    << Node("a", 1),
       Ensemble("b_rate", 10, 1),
       Connection(Ref("a", ""), Ref("b_rate", ""), "Default"),
       Ensemble("b_spike", 10, 1),
       Connection(Ref("a", ""), Ref("b_spike", ""), "Default"),
       Probe("p_a", Ref("a", "")),
       Probe("p_rate", Ref("b_rate", "neurons")),
       Probe("p_spike", Ref("b_spike", "neurons")) >>

\* the simulation run for two seconds before the plots
CellSpikingRunTwice ==
    << [op |-> "network", line |-> 236, cond |-> "any", net |-> "net", new |-> TRUE,
        params |-> "own", objs |-> NetSpiking],
       [op |-> "with", line |-> 252, cond |-> "any", net |-> "net",
        minibatch_size |-> None, cls |-> "nengo_dl.Simulator"],
       [op |-> "run_steps", line |-> 257, cond |-> "any", n |-> 1000],
       [op |-> "run_steps", line |-> 257, cond |-> "any", n |-> 1000],
       [op |-> "exit", line |-> 257, cond |-> "any"],
       [op |-> "read", line |-> 259, cond |-> "any"],
       [op |-> "read", line |-> 307, cond |-> "any"] >>

\* the network, one second of simulation, and the plots of sim.data
CellSpiking ==
    << [op |-> "network", line |-> 236, cond |-> "any", net |-> "net", new |-> TRUE,
        params |-> "own", objs |-> NetSpiking],
       [op |-> "with", line |-> 252, cond |-> "any", net |-> "net",
        minibatch_size |-> None, cls |-> "nengo_dl.Simulator"],
       [op |-> "run_steps", line |-> 257, cond |-> "any", n |-> 1000],
       [op |-> "exit", line |-> 257, cond |-> "any"],
       [op |-> "read", line |-> 259, cond |-> "any"],
       [op |-> "read", line |-> 307, cond |-> "any"] >>

\* batch_norm = nengo_dl.Layer(BatchNormalization(momentum=0.9))(b_rate.neurons)
\* p_batch_norm = nengo.Probe(batch_norm)
ObjsLayerBN ==
    << LayerApp("batch_norm", "BatchNormalization", Ref("b_rate", "neurons")),
       Probe("p_batch_norm", Ref("batch_norm", "")) >>

\* the same with the TensorNode given the source's size by hand and the
\* Connection at its default synapse
ObjsTensorNodeBNDefaultSynapse ==
    << TensorNode("batch_norm", "BatchNormalization", <<10>>, None, FALSE),
       Connection(Ref("b_rate", "neurons"), Ref("batch_norm", ""), "Default"),
       Probe("p_batch_norm", Ref("batch_norm", "")) >>

\* batch_norm = nengo_dl.TensorNode(BatchNormalization(momentum=0.9),
\*                                  shape_in=(10,), pass_time=False)
\* nengo.Connection(b_rate.neurons, batch_norm, synapse=None)
\* p_batch_norm = nengo.Probe(batch_norm)
ObjsTensorNodeBN ==
    << TensorNode("batch_norm", "BatchNormalization", <<10>>, None, FALSE),
       Connection(Ref("b_rate", "neurons"), Ref("batch_norm", ""), "None"),
       Probe("p_batch_norm", Ref("batch_norm", "")) >>

\* with net: (Layer form)
CellLayerBN ==
    << [op |-> "network", line |-> 374, cond |-> "any", net |-> "net", new |-> FALSE,
        params |-> "own", objs |-> ObjsLayerBN] >>

\* with net: (TensorNode form)
CellTensorNodeBN ==
    << [op |-> "network", line |-> 400, cond |-> "any", net |-> "net", new |-> FALSE,
        params |-> "own", objs |-> ObjsTensorNodeBN] >>

\* a = nengo.Node([0.5, -0.1]); b = TensorNode(tensor_func, shape_in=(2,),
\* shape_out=(2,)); Connection(a, b, synapse=None); p = Probe(b)
NetTensorFunc ==
    << Node("a", 2),
       TensorNode("b", "tensor_func", <<2>>, Some(<<2>>), TRUE),
       Connection(Ref("a", ""), Ref("b", ""), "None"),
       Probe("p", Ref("b", "")) >>

\* a = nengo_dl.TensorNode(MyLayer(), shape_in=(1,), pass_time=False)
NetMyLayer == << TensorNode("a", "MyLayer", <<1>>, None, FALSE) >>

\* the tensor_func network and its simulator
CellTensorFunc ==
    << [op |-> "network", line |-> 435, cond |-> "any", net |-> "net", new |-> TRUE,
        params |-> "own", objs |-> NetTensorFunc],
       [op |-> "with", line |-> 456, cond |-> "any", net |-> "net",
        minibatch_size |-> None, cls |-> "nengo_dl.Simulator"],
       [op |-> "predict", line |-> 458, cond |-> "any", data |-> "none",
        n_steps |-> 10],
       [op |-> "exit", line |-> 458, cond |-> "any"] >>

\* the MyLayer network (never simulated)
CellMyLayer ==
    << [op |-> "network", line |-> 485, cond |-> "any", net |-> "net", new |-> TRUE,
        params |-> "own", objs |-> NetMyLayer] >>

\* (train_data, _), (test_data, _) = mnist.load_data(), flattened
CellMnist ==
    << [op |-> "load_data", line |-> 523, cond |-> "any",
        sets |-> << [name |-> "train_data", shape |-> <<n_train, n_in>>],
                   [name |-> "test_data", shape |-> <<n_test, n_in>>] >>] >>

\* model = tf.keras.Model(tf_a, tf_c); compile, fit, evaluate, predict
CellKerasTrain ==
    << [op |-> "keras_model", line |-> 544, cond |-> "any"],
       [op |-> "keras_compile", line |-> 545, cond |-> "any"],
       [op |-> "keras_fit", line |-> 548, cond |-> "any", data |-> "train_data",
        targets |-> "train_data"],
       [op |-> "keras_evaluate", line |-> 551, cond |-> "any", data |-> "test_data",
        targets |-> "test_data"],
       [op |-> "keras_predict", line |-> 554, cond |-> "any", data |-> "test_data",
        rows |-> 1] >>

\* the time axis added to the training data only
CellTimeAxisTFTrainOnly ==
    << [op |-> "add_time_axis", line |-> 603, cond |-> "any", name |-> "train_data",
        index |-> <<":", "None", ":">>] >>

\* only the gains and biases are reset
CellResetEnsemblesOnly ==
    << [op |-> "reset", line |-> 576, cond |-> "any", net |-> "auto_net",
        what |-> "ensembles"] >>

\* for ens in auto_net.all_ensembles: ens.gain = Choice([1]); ens.bias = Choice([0])
\* for conn in auto_net.all_connections: conn.synapse = None
CellReset ==
    << [op |-> "reset", line |-> 576, cond |-> "any", net |-> "auto_net",
        what |-> "ensembles"],
       [op |-> "reset", line |-> 581, cond |-> "any", net |-> "auto_net",
        what |-> "connections"] >>

\* train_data = train_data[:, None, :]; test_data = test_data[:, None, :]
CellTimeAxisTF ==
    << [op |-> "add_time_axis", line |-> 603, cond |-> "any", name |-> "train_data",
        index |-> <<":", "None", ":">>],
       [op |-> "add_time_axis", line |-> 604, cond |-> "any", name |-> "test_data",
        index |-> <<":", "None", ":">>] >>

\* with nengo_dl.Simulator(auto_net, minibatch_size=minibatch_size) as sim: compile, fit, evaluate, predict
CellAutoTrain ==
    << [op |-> "with", line |-> 621, cond |-> "any", net |-> "auto_net",
        minibatch_size |-> Some(minibatch_size_tf), cls |-> "nengo_dl.Simulator"],
       [op |-> "compile", line |-> 622, cond |-> "any"],
       [op |-> "fit", line |-> 625, cond |-> "any", data |-> "train_data",
        targets |-> "train_data"],
       [op |-> "evaluate", line |-> 628, cond |-> "any", data |-> "test_data",
        targets |-> "test_data"],
       [op |-> "predict", line |-> 631, cond |-> "any", data |-> "test_data",
        rows |-> minibatch_size_tf],
       [op |-> "exit", line |-> 633, cond |-> "any"] >>

\* the NEF network computing sin(x^2)
NetNef ==
    << Node("inpt", 1), Ensemble("ens0", 50, 1), Ensemble("ens1", 50, 1), Node("outpt", 1),
       Connection(Ref("inpt", ""), Ref("ens0", ""), "Default"),
       Connection(Ref("ens0", ""), Ref("ens1", ""), "Default"),
       Connection(Ref("ens1", ""), Ref("outpt", ""), "Default"),
       Probe("inpt_p", Ref("inpt", "")),
       Probe("outpt_p", Ref("outpt", "")) >>

\* the NEF network in nengo_dl.Simulator
CellNefDL ==
    << [op |-> "network", line |-> 676, cond |-> "any", net |-> "net", new |-> TRUE,
        params |-> "own", objs |-> NetNef],
       [op |-> "with", line |-> 704, cond |-> "any", net |-> "net",
        minibatch_size |-> None, cls |-> "nengo_dl.Simulator"],
       [op |-> "run_steps", line |-> 705, cond |-> "any", n |-> 1000],
       [op |-> "exit", line |-> 705, cond |-> "any"],
       [op |-> "read", line |-> 707, cond |-> "any"] >>

\* a probe added to the network before it is run in nengo.Simulator
CellNefReferenceOtherNet ==
    << [op |-> "network", line |-> 759, cond |-> "any", net |-> "net", new |-> FALSE,
        params |-> "own", objs |-> << Probe("ens0_p", Ref("ens0", "")) >>],
       [op |-> "with", line |-> 760, cond |-> "any", net |-> "net",
        minibatch_size |-> None, cls |-> "nengo.Simulator"],
       [op |-> "run_steps", line |-> 761, cond |-> "any", n |-> 1000],
       [op |-> "exit", line |-> 761, cond |-> "any"],
       [op |-> "read", line |-> 763, cond |-> "any"] >>

\* the same network in nengo.Simulator
CellNefReference ==
    << [op |-> "with", line |-> 760, cond |-> "any", net |-> "net",
        minibatch_size |-> None, cls |-> "nengo.Simulator"],
       [op |-> "run_steps", line |-> 761, cond |-> "any", n |-> 1000],
       [op |-> "exit", line |-> 761, cond |-> "any"],
       [op |-> "read", line |-> 763, cond |-> "any"] >>

CellNef == CellNefDL \o CellNefReference

\* "Coming from TensorFlow to NengoDL", cells in order
ProgTF ==
    CellKerasLayers \o CellAutoNet \o CellKerasPredict \o CellAutoPredict
    \o CellSpiking \o CellLayerBN \o CellTensorNodeBN \o CellTensorFunc
    \o CellMyLayer \o CellMnist \o CellKerasTrain \o CellReset \o CellTimeAxisTF
    \o CellAutoTrain \o CellNef

\* node = nengo_dl.TensorNode(sin_func); p = nengo.Probe(node)
NetSinFunc ==
    << TensorNode("node", "sin_func", <<>>, None, TRUE),
       Probe("p", Ref("node", "")) >>

\* sim.run(5.0) written after the with block
CellSinFuncRunAfterExit ==
    << [op |-> "network", line |-> 902, cond |-> "any", net |-> "net", new |-> TRUE,
        params |-> "own", objs |-> NetSinFunc],
       [op |-> "with", line |-> 917, cond |-> "any", net |-> "net",
        minibatch_size |-> None, cls |-> "nengo_dl.Simulator"],
       [op |-> "exit", line |-> 917, cond |-> "any"],
       [op |-> "run_steps", line |-> 918, cond |-> "any", n |-> 5000],
       [op |-> "read", line |-> 920, cond |-> "any"] >>

\* the sin_func network, sim.run(5.0) at dt = 0.001, and the plot
CellSinFunc ==
    << [op |-> "network", line |-> 902, cond |-> "any", net |-> "net", new |-> TRUE,
        params |-> "own", objs |-> NetSinFunc],
       [op |-> "with", line |-> 917, cond |-> "any", net |-> "net",
        minibatch_size |-> None, cls |-> "nengo_dl.Simulator"],
       [op |-> "run_steps", line |-> 918, cond |-> "any", n |-> 5000],
       [op |-> "exit", line |-> 918, cond |-> "any"],
       [op |-> "read", line |-> 920, cond |-> "any"] >>

\* Fashion MNIST, images flattened
CellFashion ==
    << [op |-> "load_data", line |-> 967, cond |-> "any",
        sets |-> << [name |-> "train_images", shape |-> <<n_train, n_in>>],
                   [name |-> "train_labels", shape |-> <<n_train>>],
                   [name |-> "test_images", shape |-> <<n_test, n_in>>],
                   [name |-> "test_labels", shape |-> <<n_test>>] >>] >>

\* the Keras model: built, compiled, trained, evaluated; model.save_weights(model_weights)
CellKerasModel ==
    << [op |-> "keras_layers", line |-> 1017, cond |-> "any"],
       [op |-> "keras_model", line |-> 1021, cond |-> "any"],
       [op |-> "keras_compile", line |-> 1023, cond |-> "any"],
       [op |-> "keras_fit", line |-> 1028, cond |-> "any", data |-> "train_images",
        targets |-> "train_labels"],
       [op |-> "keras_evaluate", line |-> 1030, cond |-> "any",
        data |-> "test_images", targets |-> "test_labels"],
       [op |-> "save_weights", line |-> 1047, cond |-> "any", file |-> "keras_weights"] >>

\* input_node = Node(np.ones(28 * 28)); keras_node = TensorNode(layer,
\* shape_in=(28 * 28,), shape_out=(num_classes,), pass_time=False);
\* Connection(input_node, keras_node, synapse=None); keras_p = Probe(keras_node)
NetKerasWrapper ==
    << Node("input_node", n_in),
       TensorNode("keras_node", "KerasWrapper", <<n_in>>, Some(<<num_classes>>), FALSE),
       Connection(Ref("input_node", ""), Ref("keras_node", ""), "None"),
       Probe("keras_p", Ref("keras_node", "")) >>

\* layer = KerasWrapper(model) and the network around it
CellWrapperNet ==
    << [op |-> "wrapper", line |-> 1122, cond |-> "any"],
       [op |-> "network", line |-> 1113, cond |-> "any", net |-> "net", new |-> TRUE,
        params |-> "wrapper", objs |-> NetKerasWrapper] >>

\* the time axis of length 1 for images and labels
CellTimeAxisKeras ==
    << [op |-> "add_time_axis", line |-> 1161, cond |-> "any",
        name |-> "train_images", index |-> <<":", "None", ":">>],
       [op |-> "add_time_axis", line |-> 1162, cond |-> "any",
        name |-> "train_labels", index |-> <<":", "None", "None">>],
       [op |-> "add_time_axis", line |-> 1164, cond |-> "any",
        name |-> "test_images", index |-> <<":", "None", ":">>],
       [op |-> "add_time_axis", line |-> 1165, cond |-> "any",
        name |-> "test_labels", index |-> <<":", "None", "None">>] >>

\* evaluate without compile
CellWrapperSimNoCompile ==
    << [op |-> "with", line |-> 1180, cond |-> "any", net |-> "net",
        minibatch_size |-> Some(minibatch_size_keras), cls |-> "nengo_dl.Simulator"],
       [op |-> "evaluate", line |-> 1188, cond |-> "any", data |-> "test_images",
        targets |-> "test_labels"],
       [op |-> "exit", line |-> 1188, cond |-> "any"] >>

\* minibatch_size = 20; with nengo_dl.Simulator(net, minibatch_size=minibatch_size) as sim: compile, evaluate
CellWrapperSim ==
    << [op |-> "with", line |-> 1180, cond |-> "any", net |-> "net",
        minibatch_size |-> Some(minibatch_size_keras), cls |-> "nengo_dl.Simulator"],
       [op |-> "compile", line |-> 1182, cond |-> "any"],
       [op |-> "evaluate", line |-> 1188, cond |-> "any", data |-> "test_images",
        targets |-> "test_labels"],
       [op |-> "exit", line |-> 1188, cond |-> "any"] >>

\* inp = Node(np.ones(28 * 28)); hidden = Layer(Dense(128, relu))(inp);
\* out = Layer(Dense(num_classes))(hidden); out_p = Probe(out)
NetLayers ==
    << Node("inp", n_in),
       LayerApp("hidden", "Dense128", Ref("inp", "")),
       LayerApp("out", "Dense10", Ref("hidden", "")),
       Probe("out_p", Ref("out", "")) >>

\* the same network from native Nengo objects
NetNative ==
    << Node("inp", n_in),
       Ensemble("hidden", 128, 1),
       Connection(Ref("inp", ""), Ref("hidden", "neurons"), "Default"),
       Node("out", num_classes),
       Connection(Ref("hidden", "neurons"), Ref("out", ""), "Default"),
       Probe("out_p", Ref("out", "")) >>

\* the network of nengo_dl.Layer objects, trained and evaluated
CellLayers ==
    << [op |-> "network", line |-> 1228, cond |-> "any", net |-> "net", new |-> TRUE,
        params |-> "own", objs |-> NetLayers],
       [op |-> "with", line |-> 1259, cond |-> "any", net |-> "net",
        minibatch_size |-> Some(minibatch_size_keras), cls |-> "nengo_dl.Simulator"],
       [op |-> "compile", line |-> 1262, cond |-> "any"],
       [op |-> "fit", line |-> 1267, cond |-> "any", data |-> "train_images",
        targets |-> "train_labels"],
       [op |-> "evaluate", line |-> 1271, cond |-> "any", data |-> "test_images",
        targets |-> "test_labels"],
       [op |-> "exit", line |-> 1271, cond |-> "any"] >>

\* the native network, trained and evaluated
CellNative ==
    << [op |-> "network", line |-> 1306, cond |-> "any", net |-> "net", new |-> TRUE,
        params |-> "own", objs |-> NetNative],
       [op |-> "with", line |-> 1345, cond |-> "any", net |-> "net",
        minibatch_size |-> Some(minibatch_size_keras), cls |-> "nengo_dl.Simulator"],
       [op |-> "compile", line |-> 1346, cond |-> "any"],
       [op |-> "fit", line |-> 1351, cond |-> "any", data |-> "train_images",
        targets |-> "train_labels"],
       [op |-> "evaluate", line |-> 1355, cond |-> "any", data |-> "test_images",
        targets |-> "test_labels"],
       [op |-> "exit", line |-> 1355, cond |-> "any"] >>

\* the converted network trained before it is evaluated
CellConverterWithFit ==
    << [op |-> "convert", line |-> 1377, cond |-> "any", net |-> "converter.net"],
       [op |-> "with", line |-> 1382, cond |-> "any", net |-> "converter.net",
        minibatch_size |-> Some(minibatch_size_keras), cls |-> "nengo_dl.Simulator"],
       [op |-> "compile", line |-> 1385, cond |-> "any"],
       [op |-> "fit", line |-> 1390, cond |-> "any", data |-> "train_images",
        targets |-> "train_labels"],
       [op |-> "evaluate", line |-> 1392, cond |-> "any", data |-> "test_images",
        targets |-> "test_labels"],
       [op |-> "exit", line |-> 1392, cond |-> "any"] >>

\* converter = nengo_dl.Converter(model); with nengo_dl.Simulator(converter.net, ...) as sim: compile, evaluate
CellConverter ==
    << [op |-> "convert", line |-> 1377, cond |-> "any", net |-> "converter.net"],
       [op |-> "with", line |-> 1382, cond |-> "any", net |-> "converter.net",
        minibatch_size |-> Some(minibatch_size_keras), cls |-> "nengo_dl.Simulator"],
       [op |-> "compile", line |-> 1385, cond |-> "any"],
       [op |-> "evaluate", line |-> 1392, cond |-> "any", data |-> "test_images",
        targets |-> "test_labels"],
       [op |-> "exit", line |-> 1392, cond |-> "any"] >>

\* "Integrating a Keras model into a Nengo network", cells in order
ProgKeras ==
    CellSinFunc \o CellFashion \o CellKerasModel \o CellWrapperNet
    \o CellTimeAxisKeras \o CellWrapperSim \o CellLayers \o CellNative
    \o CellConverter

Prog == CASE nb = "spa" -> ProgSpa
          [] nb = "tf" -> ProgTF
          [] nb = "keras" -> ProgKeras
          [] OTHER -> <<>>

\* both branches executed one after the other
CondHoldsNoElse(ins) == TRUE

\* "if do_training: ... else: ..."
CondHolds(ins) ==
    \/ ins.cond = "any"
    \/ ins.cond = "train" /\ py.do_training
    \/ ins.cond = "pretrained" /\ ~py.do_training

\* the next statement that is executed from position i on
RECURSIVE SkipTo(_)
SkipTo(i) == IF i > Len(Prog) \/ CondHolds(Prog[i]) THEN i ELSE SkipTo(i + 1)

Running == nb # "none" /\ py.error = None /\ pc <= Len(Prog)

Ins == Prog[pc]

At(op) == Running /\ Ins.op = op

\* names bound to data arrays in the three notebooks
DataNames == {"test", "train", "train_data", "test_data",
              "train_images", "train_labels", "test_images", "test_labels"}

\* the array arguments of a statement
ArgFields(ins) == {f \in {"data", "targets"} : f \in DOMAIN ins}

\* the shape of the array a statement passes: a bound name, a slice of its
\* rows (a[:k], a[[0]]), a literal np.ones(shape), or nothing
PassedShape(ins, f) ==
    IF ins[f] \in DataNames
    THEN IF py.data[ins[f]] = None THEN None
         ELSE IF "rows" \in DOMAIN ins
              THEN Some([py.data[ins[f]][1].shape EXCEPT ![1] = ins.rows])
              ELSE Some(py.data[ins[f]][1].shape)
    ELSE IF "shape" \in DOMAIN ins THEN Some(ins.shape) ELSE None

\* the entry of trace for a statement about to be executed
Executed(ins) ==
    [line |-> ins.line, op |-> ins.op,
     name |-> IF "name" \in DOMAIN ins THEN ins.name ELSE "",
     n |-> IF "n" \in DOMAIN ins THEN ins.n ELSE 0,
     net |-> IF "net" \in DOMAIN ins THEN ins.net ELSE "",
     sim |-> IF ins.op \in {"with", "open"} THEN Len(sims) + 1 ELSE py.sim,
     args |-> [f \in ArgFields(ins) |->
                 [name |-> ins[f], shape |-> PassedShape(ins, f),
                  value |-> IF ins[f] \in DataNames THEN py.data[ins[f]] ELSE None]]]

Advance ==
    /\ pc' = SkipTo(pc + 1)
    /\ trace' = Append(trace, Executed(Ins))

\* names bound to networks
NetNames == {"net", "auto_net", "converter.net"}

NetsInit == [name \in NetNames |-> None]

\* the Keras side: the weights of the layers, the Model over them, the last
\* model.evaluate result, the KerasWrapper layer and the Converter
KerasInit ==
    [w |-> None, model |-> None, fit_data |-> None, evaluated |-> None,
     wrapper |-> None, converter |-> None]

\* inputs a model is compared on
Inputs == (0 - 1)..1

\* a model's output for input x with its parameters at w
Apply(w, x) == IF w * x > 0 THEN w * x ELSE 0

\* what evaluate(x, y) reports: determined by the function the model
\* computes and by the data it is given
Metric(w, x, y) ==
    [outputs |-> [i \in Inputs |-> Apply(w, i)], x |-> x.origin, y |-> y.origin]

\* a[idx] for an index made of ":" and None
RECURSIVE IndexShape(_, _)
IndexShape(shape, idx) ==
    IF idx = <<>> THEN shape
    ELSE IF Head(idx) = "None" THEN <<1>> \o IndexShape(shape, Tail(idx))
    ELSE <<Head(shape)>> \o IndexShape(Tail(shape), Tail(idx))

\* KerasWrapper.build without the load_weights call
KerasWrapperBuildNoLoad(wr, fresh, file) ==
    [wr EXCEPT !.built = TRUE, !.w = Some(fresh)]

\* KerasWrapper.build: self.model = clone_model(self.model) gives a model of
\* the same architecture with newly initialised weights;
\* self.model.load_weights(model_weights) then reads the file
KerasWrapperBuild(wr, fresh, file) ==
    LET cloned == [wr EXCEPT !.built = TRUE, !.w = Some(fresh)]
    IN [cloned EXCEPT !.w = Some(file.w)]

\* the weights of the model a KerasWrapper holds: until build it is the
\* model it was given
WrapperWeights(k) ==
    IF k.wrapper[1].w = None THEN k.w[1] ELSE k.wrapper[1].w[1]

\* the parameters a simulator starts from
NetParams(net, k) ==
    CASE net.params = "wrapper" -> [src |-> "keras_weights", w |-> WrapperWeights(k)]
      [] net.params = "converter" -> [src |-> "converter", w |-> k.converter[1].w]
      [] OTHER -> [src |-> "initial", w |-> 0]

IsTensorNode(o) == o.kind = "TensorNode"

\* the TensorNodes a simulator builds: what each function returns for the
\* simulator's minibatch size, and what the TensorNode declares
SimTensorNodes(objs, mb) ==
    LET tns == SelectSeq(objs, IsTensorNode)
    IN [k \in 1..Len(tns) |->
          [name |-> tns[k].name, func |-> tns[k].func, shape_out |-> tns[k].shape_out,
           returned |-> FuncShape(tns[k].func, <<>>, <<mb>> \o tns[k].shape_in),
           expected |-> <<mb>> \o tns[k].shape_out]]

ManagedAlways(ins) == TRUE

\* "with Simulator(...) as sim:" against "sim = Simulator(...)"
Managed(ins) == ins.op = "with"

\* the Python globals at the start of a notebook
PyInit(seed, do_training) ==
    [seed |-> seed, do_training |-> do_training, error |-> None,
     sim |-> 0, inwith |-> 0,
     data |-> [name \in DataNames |-> None],
     files |-> [name \in {"spa_retrieval_params", "keras_weights"} |-> None],
     evals |-> <<>>]

\* nengo_dl.Simulator(net, minibatch_size=...): minibatch_size=None means 1
EffMinibatch(mb) == IF mb = None THEN 1 ELSE mb[1]

\* a new simulator: built from the network, with its initial parameters
NewSim(ins, net, k) ==
    [line |-> ins.line, net |-> ins.net, cls |-> ins.cls,
     minibatch_size |-> EffMinibatch(ins.minibatch_size),
     managed |-> Managed(ins),
     closed |-> FALSE, closedBy |-> "none",
     compiled |-> FALSE, fit_data |-> None,
     params |-> NetParams(net, k),
     net_objs |-> net.objs,
     tn |-> SimTensorNodes(net.objs, EffMinibatch(ins.minibatch_size)),
     n_steps |-> 0, data_params |-> None, evaluated |-> None]

\* every get_data result assigned to the test_... names
CallGetDataIntoTest ==
    /\ At("get_data")
    /\ py' = [py EXCEPT !.data["test"] = Some(
                 [call |-> Ins.line, n_items |-> Ins.n_items,
                  pairs_per_item |-> n_pairs, vec_d |-> dims,
                  vocab_seed |-> IF Ins.seed_of = "train" THEN TrainSeed(py.seed)
                                 ELSE TestSeed(py.seed),
                  shape |-> <<Ins.n_items, 1, dims>>])]
    /\ Advance
    /\ UNCHANGED <<gd, av, nb, sims, keras, nets>>

\* test_..., = get_data(minibatch_size, n_pairs, dims, vocab_seed=seed)
\* train_..., = get_data(n_items=5000, ..., vocab_seed=seed + 1)
\* The arrays are kept by where they come from, not by their contents.
CallGetData ==
    /\ At("get_data")
    /\ py' = [py EXCEPT !.data[Ins.into] = Some(
                 [call |-> Ins.line, n_items |-> Ins.n_items,
                  pairs_per_item |-> n_pairs, vec_d |-> dims,
                  vocab_seed |-> IF Ins.seed_of = "train" THEN TrainSeed(py.seed)
                                 ELSE TestSeed(py.seed),
                  shape |-> <<Ins.n_items, 1, dims>>])]
    /\ Advance
    /\ UNCHANGED <<gd, av, nb, sims, keras, nets>>

\* with nengo_dl.Simulator(...) as sim:   /   sim = nengo_dl.Simulator(...)
\* Building the simulator builds the layers in its TensorNodes.
SimOpenable ==
    /\ nets[Ins.net] # None
    /\ nets[Ins.net][1].params = "wrapper" =>
          keras.wrapper # None /\ py.files["keras_weights"] # None

SimOpen ==
    /\ At("with") \/ At("open")
    /\ SimOpenable
    /\ \E fresh \in Weights :
          LET net == nets[Ins.net][1]
              k == IF net.params = "wrapper"
                   THEN [keras EXCEPT !.wrapper = Some(
                            KerasWrapperBuild(keras.wrapper[1], fresh,
                                              py.files["keras_weights"][1]))]
                   ELSE keras
          IN /\ keras' = k
             /\ sims' = Append(sims, NewSim(Ins, net, k))
    /\ py' = [py EXCEPT !.sim = Len(sims) + 1,
                        !.inwith = IF Ins.op = "with" THEN Len(sims) + 1 ELSE @]
    /\ Advance
    /\ UNCHANGED <<gd, av, nb, nets>>

\* the end of a with block: the context manager closes the simulator
WithExit ==
    /\ At("exit")
    /\ sims' = [sims EXCEPT ![py.inwith].closed = TRUE, ![py.inwith].closedBy = "exit"]
    /\ py' = [py EXCEPT !.inwith = 0]
    /\ Advance
    /\ UNCHANGED <<gd, av, nb, keras, nets>>

\* sim.close()
SimClose ==
    /\ At("close")
    /\ sims' = [sims EXCEPT ![py.sim].closed = TRUE, ![py.sim].closedBy = "close"]
    /\ Advance
    /\ UNCHANGED <<gd, av, nb, py, keras, nets>>

\* a simulator call on a closed simulator raises SimulatorClosed
SimUsable == py.sim # 0 /\ ~sims[py.sim].closed

\* sim.step(data=test_inputs): one time step; the probe data now comes from
\* the parameters the simulator holds at this moment
SimStep ==
    /\ At("step")
    /\ SimUsable
    /\ sims' = [sims EXCEPT ![py.sim].n_steps = @ + 1,
                            ![py.sim].data_params = Some(sims[py.sim].params)]
    /\ Advance
    /\ UNCHANGED <<gd, av, nb, py, keras, nets>>

\* sim.compile(optimizer=..., loss=...)
SimCompile ==
    /\ At("compile")
    /\ SimUsable
    /\ sims' = [sims EXCEPT ![py.sim].compiled = TRUE]
    /\ Advance
    /\ UNCHANGED <<gd, av, nb, py, keras, nets>>

\* sim.fit(inputs, targets, epochs=...): training leaves new parameters
SimFit ==
    /\ At("fit")
    /\ SimUsable
    /\ sims[py.sim].compiled
    /\ \E w \in Weights :
          sims' = [sims EXCEPT ![py.sim].params = [src |-> "fit", w |-> w],
                               ![py.sim].fit_data = py.data[Ins.data]]
    /\ Advance
    /\ UNCHANGED <<gd, av, nb, py, keras, nets>>

\* sim.save_params(path)
SimSaveParams ==
    /\ At("save_params")
    /\ SimUsable
    /\ py' = [py EXCEPT !.files[Ins.file] = Some(sims[py.sim].params)]
    /\ Advance
    /\ UNCHANGED <<gd, av, nb, sims, keras, nets>>

\* urlretrieve(url, "spa_retrieval_params.npz"): the pretrained parameters
Urlretrieve ==
    /\ At("urlretrieve")
    /\ \E w \in Weights :
          py' = [py EXCEPT !.files[Ins.file] = Some([src |-> "download", w |-> w])]
    /\ Advance
    /\ UNCHANGED <<gd, av, nb, sims, keras, nets>>

\* sim.load_params(path): the parameters stored in the file
SimLoadParams ==
    /\ At("load_params")
    /\ SimUsable
    /\ py.files[Ins.file] # None
    /\ sims' = [sims EXCEPT ![py.sim].params = [src |-> "load", w |-> py.files[Ins.file][1].w]]
    /\ Advance
    /\ UNCHANGED <<gd, av, nb, py, keras, nets>>

\* accuracy(sim.data[out], test_vocab, test_targets): reads the probe data of
\* the simulator sim is bound to, at t_step = -1.  The probe data of a
\* simulator has n_steps entries along its time axis.
CallAccuracy ==
    /\ At("accuracy")
    /\ py.sim # 0
    /\ sims[py.sim].n_steps > 0
    /\ py' = [py EXCEPT !.evals = Append(@,
                 [line |-> Ins.line, sim |-> py.sim,
                  n_steps |-> sims[py.sim].n_steps,
                  t_index |-> PyIndex(sims[py.sim].n_steps, -1),
                  data_params |-> sims[py.sim].data_params,
                  targets |-> py.data[Ins.targets]])]
    /\ Advance
    /\ UNCHANGED <<gd, av, nb, sims, keras, nets>>

\* plots that read sim.data / sim.trange()
ReadData ==
    /\ At("read")
    /\ py.sim # 0
    /\ Advance
    /\ UNCHANGED <<gd, av, nb, py, sims, keras, nets>>

\* an argument is a literal ("ones", "none") or a name that must be bound
Available(name) == IF name \in DataNames THEN py.data[name] # None ELSE TRUE

\* sim.run_steps(n) / sim.run(t): n time steps
SimRunSteps ==
    /\ At("run_steps")
    /\ SimUsable
    /\ sims' = [sims EXCEPT ![py.sim].n_steps = @ + Ins.n,
                            ![py.sim].data_params = Some(sims[py.sim].params)]
    /\ Advance
    /\ UNCHANGED <<gd, av, nb, py, keras, nets>>

\* sim.predict(...): the outputs are returned, the simulator keeps its state
SimPredict ==
    /\ At("predict")
    /\ SimUsable
    /\ Available(Ins.data)
    /\ Advance
    /\ UNCHANGED <<gd, av, nb, py, sims, keras, nets>>

\* sim.evaluate(x, y): the metrics of the parameters the simulator holds
SimEvaluate ==
    /\ At("evaluate")
    /\ SimUsable
    /\ sims[py.sim].compiled
    /\ py.data[Ins.data] # None /\ py.data[Ins.targets] # None
    /\ sims' = [sims EXCEPT ![py.sim].evaluated = Some(
                   Metric(sims[py.sim].params.w, py.data[Ins.data][1],
                          py.data[Ins.targets][1]))]
    /\ Advance
    /\ UNCHANGED <<gd, av, nb, py, keras, nets>>

\* with nengo.Network() as net: ... / with net: ...  The objects of the
\* cell are added to the network.
NetBuild ==
    /\ At("network")
    /\ Ins.new \/ nets[Ins.net] # None
    /\ LET old == IF Ins.new THEN <<>> ELSE nets[Ins.net][1].objs
           oldcells == IF Ins.new THEN <<>> ELSE nets[Ins.net][1].cells
           added == AddObjects(old, Ins.objs, Len(Ins.objs))
       IN nets' = [nets EXCEPT ![Ins.net] = Some(
                     [line |-> IF Ins.new THEN Ins.line ELSE nets[Ins.net][1].line,
                      params |-> Ins.params,
                      objs |-> old \o added,
                      cells |-> Append(oldcells, [line |-> Ins.line, added |-> added])])]
    /\ Advance
    /\ UNCHANGED <<gd, av, nb, py, sims, keras>>

\* the Keras layers are created with their initial weights
KerasLayers ==
    /\ At("keras_layers")
    /\ \E w \in Weights : keras' = [keras EXCEPT !.w = Some(w)]
    /\ Advance
    /\ UNCHANGED <<gd, av, nb, py, sims, nets>>

\* model = tf.keras.Model(inputs=..., outputs=...): a model over the layers
KerasModel ==
    /\ At("keras_model")
    /\ keras.w # None
    /\ keras' = [keras EXCEPT !.model = Some([line |-> Ins.line, compiled |-> FALSE])]
    /\ Advance
    /\ UNCHANGED <<gd, av, nb, py, sims, nets>>

KerasCompile ==
    /\ At("keras_compile")
    /\ keras.model # None
    /\ keras' = [keras EXCEPT !.model[1].compiled = TRUE]
    /\ Advance
    /\ UNCHANGED <<gd, av, nb, py, sims, nets>>

\* model.fit(x, y, epochs=...): training leaves new weights in the layers
KerasFit ==
    /\ At("keras_fit")
    /\ keras.model # None /\ keras.model[1].compiled
    /\ py.data[Ins.data] # None /\ py.data[Ins.targets] # None
    /\ \E w \in Weights :
          keras' = [keras EXCEPT !.w = Some(w), !.fit_data = py.data[Ins.data]]
    /\ Advance
    /\ UNCHANGED <<gd, av, nb, py, sims, nets>>

KerasEvaluate ==
    /\ At("keras_evaluate")
    /\ keras.model # None /\ keras.model[1].compiled
    /\ py.data[Ins.data] # None /\ py.data[Ins.targets] # None
    /\ keras' = [keras EXCEPT !.evaluated = Some(
                    Metric(keras.w[1], py.data[Ins.data][1], py.data[Ins.targets][1]))]
    /\ Advance
    /\ UNCHANGED <<gd, av, nb, py, sims, nets>>

KerasPredict ==
    /\ At("keras_predict")
    /\ keras.model # None
    /\ Available(Ins.data)
    /\ Advance
    /\ UNCHANGED <<gd, av, nb, py, sims, keras, nets>>

\* model.save_weights(model_weights)
SaveWeights ==
    /\ At("save_weights")
    /\ keras.model # None
    /\ py' = [py EXCEPT !.files[Ins.file] = Some([src |-> "keras", w |-> keras.w[1]])]
    /\ Advance
    /\ UNCHANGED <<gd, av, nb, sims, keras, nets>>

\* layer = KerasWrapper(model): __init__ keeps the model it is given
KerasWrapperNew ==
    /\ At("wrapper")
    /\ keras.model # None
    /\ keras' = [keras EXCEPT !.wrapper = Some([built |-> FALSE, w |-> None])]
    /\ Advance
    /\ UNCHANGED <<gd, av, nb, py, sims, nets>>

\* the network a Converter makes of the two Dense layers
NetConverted ==
    << Node("input_1", n_in),
       Ensemble("dense", 128, 1),
       Connection(Ref("input_1", ""), Ref("dense", "neurons"), "None"),
       Node("dense_1", num_classes),
       Connection(Ref("dense", "neurons"), Ref("dense_1", ""), "None"),
       Probe("dense_1_p", Ref("dense_1", "")) >>

\* converter = nengo_dl.Converter(model): converter.net holds the
\* parameter values of the model at this moment
Convert ==
    /\ At("convert")
    /\ keras.model # None
    /\ keras' = [keras EXCEPT !.converter = Some([w |-> keras.w[1]])]
    /\ nets' = [nets EXCEPT !["converter.net"] = Some(
                   [line |-> Ins.line, params |-> "converter", objs |-> NetConverted,
                    cells |-> <<[line |-> Ins.line, added |-> NetConverted]>>])]
    /\ Advance
    /\ UNCHANGED <<gd, av, nb, py, sims>>

\* one pass of a reset loop over an object of the network
ResetObj(o, what) ==
    IF what = "ensembles" /\ o.kind = "Ensemble"
    THEN [o EXCEPT !.gain = Some(1), !.bias = Some(0)]
    ELSE IF what = "connections" /\ o.kind = "Connection"
    THEN [o EXCEPT !.synapse = "None"]
    ELSE o

\* for ens in net.all_ensembles: ...  /  for conn in net.all_connections: ...
ResetLoop ==
    /\ At("reset")
    /\ nets[Ins.net] # None
    /\ LET net == nets[Ins.net][1]
           objs == [k \in 1..Len(net.objs) |-> ResetObj(net.objs[k], Ins.what)]
       IN nets' = [nets EXCEPT ![Ins.net] = Some([net EXCEPT !.objs = objs])]
    /\ Advance
    /\ UNCHANGED <<gd, av, nb, py, sims, keras>>

\* (x, y), (x, y) = ....load_data(), images flattened
LoadData ==
    /\ At("load_data")
    /\ py' = [py EXCEPT !.data = [name \in DataNames |->
                 IF \E k \in 1..Len(Ins.sets) : Ins.sets[k].name = name
                 THEN LET k == CHOOSE k \in 1..Len(Ins.sets) : Ins.sets[k].name = name
                      IN Some([call |-> Ins.line, origin |-> name,
                               loaded |-> Ins.sets[k].shape, time_axes |-> 0,
                               shape |-> Ins.sets[k].shape])
                 ELSE py.data[name]]]
    /\ Advance
    /\ UNCHANGED <<gd, av, nb, sims, keras, nets>>

\* a = a[:, None, :]  /  a = a[:, None, None]
AddTimeAxis ==
    /\ At("add_time_axis")
    /\ py.data[Ins.name] # None
    /\ py' = [py EXCEPT !.data[Ins.name] = Some(
                 [py.data[Ins.name][1] EXCEPT !.shape = IndexShape(@, Ins.index),
                                              !.time_axes = @ + 1])]
    /\ Advance
    /\ UNCHANGED <<gd, av, nb, sims, keras, nets>>

\* statements that call into the library, the network or the file system
\* and may raise
MayRaise == {"with", "open", "step", "compile", "fit", "save_params",
             "urlretrieve", "load_params", "get_data", "run_steps", "predict",
             "evaluate", "network", "keras_layers", "keras_model",
             "keras_compile", "keras_fit", "keras_evaluate", "keras_predict",
             "save_weights", "wrapper", "convert", "load_data", "add_time_axis",
             "reset"}

\* the statement raises: a with block being executed closes its simulator
\* on the way out, nothing else runs
Raise ==
    /\ Running
    /\ \/ Ins.op \in MayRaise
    /\ py' = [py EXCEPT !.error = Some([line |-> Ins.line, op |-> Ins.op]), !.inwith = 0]
    /\ sims' = IF py.inwith # 0
               THEN [sims EXCEPT ![py.inwith].closed = TRUE, ![py.inwith].closedBy = "exit"]
               ELSE sims
    /\ UNCHANGED <<gd, av, nb, pc, keras, nets, trace>>

\* a notebook is chosen and run from its first statement
Init ==
    /\ gd = GdIdle
    /\ av = AvIdle
    /\ nb \in {"spa", "tf", "keras"}
    /\ pc = 1
    /\ \E seed \in 0..MaxSeed, do_training \in BOOLEAN :
          /\ nb = "spa" \/ (seed = 0 /\ ~do_training)
          /\ py = PyInit(seed, do_training)
    /\ sims = <<>>
    /\ keras = KerasInit
    /\ nets = NetsInit
    /\ trace = <<>>

Next ==
    \/ CallGetData
    \/ SimOpen
    \/ WithExit
    \/ SimClose
    \/ SimStep
    \/ SimCompile
    \/ SimFit
    \/ SimSaveParams
    \/ Urlretrieve
    \/ SimLoadParams
    \/ CallAccuracy
    \/ ReadData
    \/ SimRunSteps
    \/ SimPredict
    \/ SimEvaluate
    \/ NetBuild
    \/ KerasLayers
    \/ KerasModel
    \/ KerasCompile
    \/ KerasFit
    \/ KerasEvaluate
    \/ KerasPredict
    \/ SaveWeights
    \/ KerasWrapperNew
    \/ Convert
    \/ LoadData
    \/ AddTimeAxis
    \/ ResetLoop
    \/ Raise

Spec == Init /\ [][Next]_vars

(***************************************************************************)
(* Claims about get_data (SpecGetData)                                     *)
(***************************************************************************)
\* examples whose iteration has finished (1-based rows of the arrays)
GdFinished == IF gd.status \in {"loop", "returned"} THEN 1..gd.n ELSE {}

\* C1: for every generated example n there is one index k < pairs_per_item
\* such that cues[n] is the vector of ROLE_n_k, targets[n] the vector of
\* FILLER_n_k (same k, same example) and traces[n] the vector of TRACE_n.
C1_CueTargetSamePair ==
    \A m \in GdFinished :
        /\ gd.cue_idx[m] \in 0..(gd.pairs_per_item - 1)
        /\ \E k \in 0..(gd.pairs_per_item - 1) :
              /\ gd.cue_idx[m] = k
              /\ gd.cues[m][1] = VocabAt(gd.vocab, RoleName(m - 1, k))
              /\ gd.targets[m][1] = VocabAt(gd.vocab, FillerName(m - 1, k))
        /\ gd.traces[m][1] = VocabAt(gd.vocab, TraceName(m - 1))

\* get_data has returned two examples of two pairs, the second pair was
\* cued for one of them, and that example's two fillers differ
C1_Witness ==
    /\ gd.status = "returned"
    /\ gd.n_items = 2
    /\ gd.pairs_per_item = 2
    /\ \E m \in 1..2 :
          /\ gd.cue_idx[m] = 1
          /\ VocabAt(gd.vocab, FillerName(m - 1, 0)) # VocabAt(gd.vocab, FillerName(m - 1, 1))
          /\ VocabAt(gd.vocab, RoleName(m - 1, 0)) # VocabAt(gd.vocab, RoleName(m - 1, 1))

\* sum over i < k of ROLE_n_i (*) FILLER_n_i, read from the final vocabulary
RECURSIVE BoundPairsSum(_, _, _)
BoundPairsSum(voc, n, k) ==
    LET prod == CConv(VocabAt(voc, RoleName(n, k - 1)).v, VocabAt(voc, FillerName(n, k - 1)).v)
    IN IF k = 1 THEN prod ELSE VAdd(BoundPairsSum(voc, n, k - 1), prod)

\* C2: the trace of example n is the normalised sum over i in
\* 0..pairs_per_item-1 of ROLE_n_i bound with FILLER_n_i; the expression
\* holds each pair once, a role with the filler of the same index.
C2_TraceIsSumOfBoundPairs ==
    \A m \in GdFinished :
        /\ gd.traces[m][1] = Normalize(Ptr(BoundPairsSum(gd.vocab, m - 1, gd.pairs_per_item)))
        /\ Len(gd.terms[m]) = gd.pairs_per_item
        /\ \A i \in 1..gd.pairs_per_item :
              gd.terms[m][i] = <<RoleName(m - 1, i - 1), FillerName(m - 1, i - 1)>>

\* a returned trace of two pairs whose two bound products differ
C2_Witness ==
    /\ gd.status = "returned"
    /\ gd.n_items >= 1
    /\ gd.pairs_per_item = 2
    /\ gd.vec_d = 2
    /\ CConv(VocabAt(gd.vocab, RoleName(0, 0)).v, VocabAt(gd.vocab, FillerName(0, 0)).v)
         # CConv(VocabAt(gd.vocab, RoleName(0, 1)).v, VocabAt(gd.vocab, FillerName(0, 1)).v)
    /\ gd.traces[1][1].s > 1

(***************************************************************************)
(* Claims about accuracy (SpecAccuracy)                                    *)
(***************************************************************************)
\* the output of example m is more similar to the correct filler than to
\* any other vector of the vocabulary
MoreSimilarToTarget(m) ==
    \A j \in 1..Len(av.vectors) :
        j # av.tgt[m] => av.result.sims[av.tgt[m]][m] > av.result.sims[j][m]

\* C3: an example counts as retrieved if and only if its output is more
\* similar (larger dot product) to the correct filler than to any other
\* vocabulary vector; the returned value is the fraction of such examples.
C3_SuccessIffStrictlyMostSimilar ==
    av.status = "returned" =>
        /\ \A m \in 1..Len(av.output) : av.result.hits[m] <=> MoreSimilarToTarget(m)
        /\ av.result.acc =
              [num |-> Cardinality({m \in 1..Len(av.output) : MoreSimilarToTarget(m)}),
               den |-> Len(av.output)]

(***************************************************************************)
(* Claims about the notebooks run top to bottom (Spec)                     *)
(***************************************************************************)
\* C4: the second ("trained") accuracy of the retrieval example is computed
\* from a step of the simulator opened at line 278, taken after sim.fit or
\* sim.load_params has completed on that same simulator.
C4_TrainedEvalAfterFitOrLoad ==
    nb = "spa" =>
        \A k \in 1..Len(py.evals) :
            py.evals[k].line = 324 =>
                /\ sims[py.evals[k].sim].line = 278
                /\ py.evals[k].data_params # None
                /\ py.evals[k].data_params[1].src \in {"fit", "load"}
                /\ py.evals[k].data_params[1] = sims[py.evals[k].sim].params

\* the trained evaluation has been made on the pretrained-parameters path
C4_Witness ==
    /\ nb = "spa"
    /\ ~py.do_training
    /\ Len(py.evals) = 2
    /\ py.evals[2].line = 324
    /\ py.evals[2].data_params = Some([src |-> "load", w |-> 1])

\* C5: the arrays passed to sim.fit come from the get_data call of line 283,
\* whose vocab_seed (seed + 1) differs from the vocab_seed (seed) of the test
\* data for every seed; the test arrays are never passed to sim.fit.
C5_TrainingDataDistinctFromTest ==
    nb = "spa" =>
        /\ \A i \in 1..Len(sims) :
              sims[i].fit_data # None =>
                  /\ sims[i].fit_data[1].call = 283
                  /\ sims[i].fit_data[1].vocab_seed = py.seed + 1
                  /\ sims[i].fit_data[1].vocab_seed # py.data["test"][1].vocab_seed
                  /\ sims[i].fit_data # py.data["test"]
        /\ py.data["train"] # None =>
              py.data["train"][1].vocab_seed # py.data["test"][1].vocab_seed

\* sim.fit has been called, in a run with the largest seed
C5_Witness ==
    /\ nb = "spa"
    /\ py.seed = MaxSeed
    /\ \E i \in 1..Len(sims) : sims[i].fit_data # None /\ sims[i].params.src = "fit"

\* C6 as stated: no example creates a simulator outside a with block or
\* releases one by an explicit close call.
C6_NoSimulatorOutsideWith ==
    \A i \in 1..Len(sims) : sims[i].managed /\ sims[i].closedBy # "close"

\* C6 (amended): every simulator is created by a with statement, is open
\* only while that block is being executed and is closed by leaving it,
\* except the second simulator of the retrieval example (line 278), which
\* is created by a plain assignment and is closed only by sim.close().
C6_OnlyRetrievalSimOutsideWith ==
    \A i \in 1..Len(sims) :
        IF nb = "spa" /\ sims[i].line = 278
        THEN /\ ~sims[i].managed
             /\ sims[i].closedBy \in {"none", "close"}
             /\ sims[i].closed <=> sims[i].closedBy = "close"
        ELSE /\ sims[i].managed
             /\ sims[i].closedBy \in {"none", "exit"}
             /\ sims[i].closed <=> sims[i].closedBy = "exit"
             /\ ~sims[i].closed => py.inwith = i

\* the retrieval notebook has left its with block and has called sim.close()
\* on the simulator of line 278
C6_Witness ==
    /\ nb = "spa"
    /\ \E i, j \in 1..Len(sims) :
          /\ sims[i].line = 213 /\ sims[i].closedBy = "exit"
          /\ sims[j].line = 278 /\ sims[j].closedBy = "close"

(***************************************************************************)
(* Claims about the Keras model in a Nengo network (Spec)                  *)
(***************************************************************************)
\* C7: once KerasWrapper.build has run, the model it holds has the weights
\* of the trained Keras model: the file was written after model.fit and
\* still holds the model's weights, the clone has loaded them, the wrapper
\* gives the same output as the model for every input, and the simulator
\* around it evaluates to the same result as model.evaluate.
C7_WrapperCarriesTrainedWeights ==
    (keras.wrapper # None /\ keras.wrapper[1].built) =>
        /\ keras.fit_data # None
        /\ py.files["keras_weights"] # None
        /\ py.files["keras_weights"][1].w = keras.w[1]
        /\ WrapperWeights(keras) = keras.w[1]
        /\ \A x \in Inputs : Apply(WrapperWeights(keras), x) = Apply(keras.w[1], x)
        /\ \A i \in 1..Len(sims) :
              sims[i].params.src = "keras_weights" =>
                  /\ sims[i].params.w = keras.w[1]
                  /\ sims[i].evaluated # None => sims[i].evaluated = keras.evaluated

\* the simulator around the KerasWrapper network has been evaluated, with
\* trained weights that are not zero
C7_Witness ==
    /\ nb = "keras"
    /\ keras.wrapper # None /\ keras.wrapper[1].built
    /\ keras.w[1] > 0
    /\ \E i \in 1..Len(sims) : sims[i].line = 1180 /\ sims[i].evaluated # None

\* C8: the network of nengo_dl.Converter(model) holds the parameter values
\* of the Keras model, its simulator is not trained before sim.evaluate,
\* and the evaluation equals that of the Keras model.
C8_ConvertedNetMatchesKeras ==
    /\ keras.converter # None => keras.converter[1].w = keras.w[1]
    /\ \A i \in 1..Len(sims) :
          sims[i].net = "converter.net" =>
              /\ sims[i].params = [src |-> "converter", w |-> keras.w[1]]
              /\ sims[i].fit_data = None
              /\ sims[i].evaluated # None => sims[i].evaluated = keras.evaluated

\* the simulator of converter.net has been evaluated
C8_Witness ==
    /\ keras.w # None /\ keras.w[1] > 0
    /\ \E i \in 1..Len(sims) :
          /\ sims[i].net = "converter.net"
          /\ sims[i].compiled
          /\ sims[i].evaluated # None

(***************************************************************************)
(* Claims about TensorNodes and nengo_dl.Layer (Spec)                      *)
(***************************************************************************)
\* C9: the cell that applies nengo_dl.Layer(BatchNormalization) to
\* b_rate.neurons and the cell that creates the TensorNode and the
\* Connection by hand add the same objects: one TensorNode whose shape_in is
\* the size of the source and with pass_time=False, one Connection from the
\* source to it with synapse=None (and the Probe both cells add).
C9_LayerSameAsTensorNodeConnection ==
    nets["net"] # None =>
        LET net == nets["net"][1]
        IN \A c1, c2 \in 1..Len(net.cells) :
              (net.cells[c1].line = 374 /\ net.cells[c2].line = 400) =>
                  /\ net.cells[c1].added = net.cells[c2].added
                  /\ Len(net.cells[c1].added) = 3
                  /\ net.cells[c1].added[1].kind = "TensorNode"
                  /\ net.cells[c1].added[1].shape_in =
                        <<SizeOut(net.objs, Ref("b_rate", "neurons"))>>
                  /\ ~net.cells[c1].added[1].pass_time
                  /\ net.cells[c1].added[2] =
                        Connection(Ref("b_rate", "neurons"), Ref("batch_norm", ""), "None")

\* both cells have been run on the network that holds b_rate
C9_Witness ==
    /\ nb = "tf"
    /\ nets["net"] # None
    /\ \E c1, c2 \in 1..Len(nets["net"][1].cells) :
          /\ nets["net"][1].cells[c1].line = 374
          /\ nets["net"][1].cells[c2].line = 400

\* C10: in every simulator, every TensorNode function returns the shape
\* (minibatch_size,) + shape_out for that simulator's minibatch size;
\* tensor_func returns (minibatch_size, 2), and sin_func, which returns
\* (1, 1), runs in a simulator of minibatch size 1.
C10_TensorNodeOutputShapes ==
    \A i \in 1..Len(sims) :
        \A k \in 1..Len(sims[i].tn) :
            LET node == sims[i].tn[k]
            IN /\ node.returned = <<sims[i].minibatch_size>> \o node.shape_out
               /\ node.returned = node.expected
               /\ node.func = "tensor_func" =>
                     node.returned = <<sims[i].minibatch_size, 2>>
               /\ node.func = "sin_func" =>
                     node.returned = <<1, 1>> /\ sims[i].minibatch_size = 1

\* the simulator of the tensor_func network has been built and used
C10_Witness ==
    \E i \in 1..Len(sims) :
        /\ sims[i].closedBy = "exit"
        /\ \E k \in 1..Len(sims[i].tn) : sims[i].tn[k].func = "tensor_func"

(***************************************************************************)
(* Claims about the statements of a run (Spec, over trace)                 *)
(***************************************************************************)
\* simulator calls and Keras calls that are passed data arrays
SimDataOps == {"fit", "evaluate", "predict", "step"}

KerasDataOps == {"keras_fit", "keras_evaluate", "keras_predict"}

\* statement i of the run was passed the array bound to name
Uses(i, name) == \E f \in DOMAIN trace[i].args : trace[i].args[f].name = name

\* C11: every array passed to fit, evaluate, predict or step of a simulator
\* has three axes (batch, steps, features) and every array passed to a
\* Keras call has none added; each loaded dataset gets its time axis at most
\* once, after every Keras call and before every simulator call that uses
\* it, and the axis has length 1 and keeps batch size and feature size.
C11_TimeAxisBetweenKerasAndSimulator ==
    /\ \A i \in 1..Len(trace) : \A f \in DOMAIN trace[i].args :
          LET arg == trace[i].args[f]
          IN /\ (trace[i].op \in SimDataOps /\ arg.shape # None) => Len(arg.shape[1]) = 3
             /\ trace[i].op \in KerasDataOps =>
                   /\ arg.shape # None
                   /\ Len(arg.shape[1]) <= 2
                   /\ arg.name \in DataNames =>
                         Tail(arg.shape[1]) = Tail(py.data[arg.name][1].loaded)
    /\ \A name \in DataNames :
          (nb # "spa" /\ py.data[name] # None) =>
              LET d == py.data[name][1]
              IN /\ d.time_axes <= 1
                 /\ d.time_axes = 0 => d.shape = d.loaded
                 /\ d.time_axes = 1 =>
                       /\ Len(d.shape) = 3
                       /\ d.shape[1] = d.loaded[1]
                       /\ d.shape[2] = 1
                       /\ Numel(d.shape) = Numel(d.loaded)
    /\ \A i, j \in 1..Len(trace) :
          (trace[i].op = "add_time_axis" /\ Uses(j, trace[i].name)) =>
              /\ trace[j].op \in KerasDataOps => j < i
              /\ trace[j].op \in SimDataOps => i < j

\* the Keras model and a simulator have both been trained on train_images,
\* which got its time axis in between
C11_Witness ==
    \E i, j, k \in 1..Len(trace) :
        /\ i < j /\ j < k
        /\ trace[i].op = "keras_fit" /\ Uses(i, "train_images")
        /\ trace[i].args["data"].shape = Some(<<n_train, n_in>>)
        /\ trace[j].op = "add_time_axis" /\ trace[j].name = "train_images"
        /\ trace[k].op = "fit" /\ Uses(k, "train_images")
        /\ trace[k].args["data"].shape = Some(<<n_train, 1, n_in>>)

\* the number of time steps simulator i was run for by the first k
\* statements of the run
RECURSIVE StepsExecuted(_, _)
StepsExecuted(i, k) ==
    IF k = 0 THEN 0
    ELSE StepsExecuted(i, k - 1)
         + (IF trace[k].sim # i THEN 0
            ELSE IF trace[k].op = "step" THEN 1
            ELSE IF trace[k].op = "run_steps" THEN trace[k].n
            ELSE 0)

\* C12: the probe data (and trange) of a simulator has one entry for each
\* step it has been run for since it was created; the plots after
\* sim.run_steps(1000) read 1000 entries; every call of accuracy reads a
\* simulator that was stepped once, and t_step = -1 is that one step.
C12_ProbeDataOneEntryPerStep ==
    /\ \A i \in 1..Len(sims) : sims[i].n_steps = StepsExecuted(i, Len(trace))
    /\ \A k \in 1..Len(trace) :
          (nb = "tf" /\ trace[k].op = "read" /\ trace[k].line \in {259, 307}) =>
              sims[trace[k].sim].n_steps = 1000
    /\ \A e \in 1..Len(py.evals) :
          /\ py.evals[e].n_steps = 1
          /\ py.evals[e].t_index = 1
          /\ StepsExecuted(py.evals[e].sim, Len(trace)) = 1

\* the plots of the spiking network have been drawn
C12_Witness ==
    /\ nb = "tf"
    /\ \E k \in 1..Len(trace) :
          /\ trace[k].op = "read" /\ trace[k].line = 307
          /\ sims[trace[k].sim].line = 252
          /\ sims[trace[k].sim].n_steps = 1000

\* the statement of the run that created simulator i
OpenedAt(i) ==
    CHOOSE k \in 1..Len(trace) : trace[k].op \in {"with", "open"} /\ trace[k].sim = i

\* statement k of the run defines or changes the network bound to name
NetStatement(k, name) ==
    trace[k].op \in {"network", "convert", "reset"} /\ trace[k].net = name

\* C13: the NEF network is simulated by nengo_dl.Simulator and then by
\* nengo.Simulator with no statement on the network in between, so both are
\* built from the same objects; and as long as no such statement follows
\* the creation of a simulator, its network still has exactly the objects
\* the simulator was built from.
C13_NetworkUnchangedAcrossSimulators ==
    /\ \A i \in 1..Len(sims) :
          (\A k \in 1..Len(trace) : k > OpenedAt(i) => ~NetStatement(k, sims[i].net)) =>
              nets[sims[i].net][1].objs = sims[i].net_objs
    /\ \A i, j \in 1..Len(sims) :
          (nb = "tf" /\ sims[i].line = 704 /\ sims[j].line = 760) =>
              /\ sims[i].cls = "nengo_dl.Simulator"
              /\ sims[j].cls = "nengo.Simulator"
              /\ sims[i].net = sims[j].net
              /\ sims[i].net_objs = sims[j].net_objs
              /\ \A k \in 1..Len(trace) :
                    (OpenedAt(i) < k /\ k < OpenedAt(j)) => ~NetStatement(k, sims[i].net)

\* the NEF network has been run in both simulators
C13_Witness ==
    \E i, j \in 1..Len(sims) :
        /\ sims[i].line = 704 /\ sims[i].n_steps = 1000
        /\ sims[j].line = 760 /\ sims[j].n_steps = 1000
        /\ sims[j].net_objs = NetNef

(***************************************************************************)
(* Claims about the retrieval example's training cell (Spec, over trace)   *)
(***************************************************************************)
IsPrefix(a, b) == Len(a) <= Len(b) /\ \A i \in 1..Len(a) : a[i] = b[i]

\* the statements of "if do_training: ... else: ..." (lines 281-304)
InBranch(e) == e.line >= 281 /\ e.line <= 304

\* the operations of the branch executed so far, in order
BranchOps ==
    LET sel == SelectSeq(trace, InBranch)
    IN [i \in 1..Len(sel) |-> sel[i].op]

TrainOps == <<"get_data", "compile", "fit", "save_params">>

PretrainedOps == <<"urlretrieve", "load_params">>

\* C14: in the retrieval example exactly one branch runs.  With do_training
\* the statements executed are get_data, compile, fit, save_params in this
\* order and nothing is downloaded or loaded; without it they are the
\* download and load_params, and neither fit nor save_params is called; the
\* whole branch has run when the run has got past it.
C14_OneBranchInOrder ==
    nb = "spa" =>
        /\ IsPrefix(BranchOps, IF py.do_training THEN TrainOps ELSE PretrainedOps)
        /\ (\E k \in 1..Len(trace) : trace[k].line > 304) =>
              BranchOps = (IF py.do_training THEN TrainOps ELSE PretrainedOps)
        /\ \A i, j \in 1..Len(trace) :
              (trace[i].op = "save_params" /\ trace[j].op = "fit") => j < i

\* a training run has saved its parameters and gone on to the evaluation
C14_Witness ==
    /\ nb = "spa"
    /\ py.do_training
    /\ BranchOps = TrainOps
    /\ \E k \in 1..Len(trace) : trace[k].line = 324

\* C15: both evaluations of the retrieval example use the test set of the
\* one get_data call of line 207: every sim.step and every accuracy call is
\* passed it, and it is still bound, unchanged, to the test_... names
\* whatever ran in between.
C15_SameTestSetForBothEvaluations ==
    nb = "spa" =>
        /\ py.data["test"] # None => py.data["test"][1].call = 207
        /\ \A k \in 1..Len(trace) :
              trace[k].op \in {"step", "accuracy"} =>
                  \A f \in DOMAIN trace[k].args :
                      /\ trace[k].args[f].name = "test"
                      /\ trace[k].args[f].value # None
                      /\ trace[k].args[f].value = py.data["test"]
        /\ \A i, j \in 1..Len(trace) :
              (trace[i].op = "get_data" /\ trace[j].op = "get_data"
               /\ trace[i].line = 207 /\ trace[j].line = 207) => i = j
        /\ \A e1, e2 \in 1..Len(py.evals) :
              py.evals[e1].targets = py.evals[e2].targets

\* both evaluations of a training run have been made
C15_Witness ==
    /\ nb = "spa"
    /\ py.do_training
    /\ \E e1, e2 \in 1..Len(py.evals) :
          /\ py.evals[e1].line = 216
          /\ py.evals[e2].line = 324
          /\ py.evals[e1].sim # py.evals[e2].sim
    /\ \E k \in 1..Len(trace) : trace[k].op = "fit"

(***************************************************************************)
(* Claims about the auto-encoder's NengoDL training (Spec)                 *)
(***************************************************************************)
\* every ensemble has gain 1 and bias 0, every connection has no synapse
ParametersReset(objs) ==
    \A k \in 1..Len(objs) :
        /\ objs[k].kind = "Ensemble" => objs[k].gain = Some(1) /\ objs[k].bias = Some(0)
        /\ objs[k].kind = "Connection" => objs[k].synapse = "None"

\* C16: the simulator that trains the auto-encoder (line 621) is created
\* after both reset loops have run, and the network it is built from has
\* gain 1 and bias 0 in every ensemble and no synapse on any connection.
C16_ResetBeforeNengoDLTraining ==
    \A i \in 1..Len(sims) :
        (nb = "tf" /\ sims[i].line = 621) =>
            /\ sims[i].net = "auto_net"
            /\ ParametersReset(sims[i].net_objs)
            /\ \E a, b \in 1..Len(trace) :
                  /\ a < b /\ b < OpenedAt(i)
                  /\ trace[a].op = "reset" /\ trace[a].net = "auto_net" /\ trace[a].line = 576
                  /\ trace[b].op = "reset" /\ trace[b].net = "auto_net" /\ trace[b].line = 581

\* the auto-encoder has been trained in the simulator of line 621, built
\* from a network with two ensembles and two connections
C16_Witness ==
    \E i \in 1..Len(sims) :
        /\ nb = "tf" /\ sims[i].line = 621
        /\ sims[i].fit_data # None
        /\ Cardinality({k \in 1..Len(sims[i].net_objs) :
                           sims[i].net_objs[k].kind = "Ensemble"}) = 2
        /\ Cardinality({k \in 1..Len(sims[i].net_objs) :
                           sims[i].net_objs[k].kind = "Connection"}) = 2

(***************************************************************************)
(* Claims about the use of simulators in all notebooks (Spec)              *)
(***************************************************************************)
\* C17: whenever sim.fit or sim.evaluate is about to be called, sim is
\* bound to a simulator on which sim.compile has been called; every fit and
\* evaluate of a run comes after a compile on the same simulator instance.
C17_CompileBeforeFitAndEvaluate ==
    /\ (Running /\ Ins.op \in {"fit", "evaluate"}) =>
          /\ py.sim # 0
          /\ sims[py.sim].compiled
          /\ \E j \in 1..Len(trace) : trace[j].op = "compile" /\ trace[j].sim = py.sim
    /\ \A k \in 1..Len(trace) :
          trace[k].op \in {"fit", "evaluate"} =>
              \E j \in 1..(k - 1) : trace[j].op = "compile" /\ trace[j].sim = trace[k].sim

\* the Layer network's simulator has been compiled, trained and evaluated,
\* after an earlier simulator of another network bound to the same name
C17_Witness ==
    \E i, j \in 1..Len(sims) :
        /\ i < j
        /\ sims[i].line = 1180 /\ sims[i].compiled
        /\ sims[j].line = 1259 /\ sims[j].compiled
        /\ sims[j].fit_data # None /\ sims[j].evaluated # None

\* C18: when a run has ended, by reaching the end of the notebook or by a
\* statement that raised, every simulator it opened is closed.
C18_EverySimulatorClosedAtEnd ==
    ~Running => \A i \in 1..Len(sims) : sims[i].closed

\* simulator calls that change the simulator or need it open
SimCallOps == {"step", "run_steps", "compile", "fit", "evaluate", "predict",
               "load_params", "save_params"}

\* C19: a simulator call is only ever about to be made on an open
\* simulator, and after the statement that closed a simulator the run makes
\* no simulator call on it: it only reads sim.data and sim.trange().
C19_NoCallAfterClose ==
    /\ (Running /\ Ins.op \in SimCallOps) => (py.sim # 0 /\ ~sims[py.sim].closed)
    /\ \A j, k \in 1..Len(trace) :
          (j < k /\ trace[j].op \in {"exit", "close"} /\ trace[k].sim = trace[j].sim) =>
              trace[k].op \notin SimCallOps

\* the retrieval example has closed its second simulator and then drawn
\* the plot from sim.data
C19_Witness ==
    \E j, k \in 1..Len(trace) :
        /\ j < k
        /\ trace[j].op = "close" /\ trace[j].line = 325
        /\ trace[k].op = "read" /\ trace[k].line = 336 /\ trace[k].sim = trace[j].sim
        /\ sims[trace[j].sim].closed

\* C20: every array passed to sim.fit, sim.evaluate or sim.predict has a
\* batch dimension that is a positive multiple of the simulator's
\* minibatch_size, and every array passed to sim.step has exactly
\* minibatch_size rows.
C20_BatchMultipleOfMinibatch ==
    \A k \in 1..Len(trace) : \A f \in DOMAIN trace[k].args :
        LET arg == trace[k].args[f]
            mb == sims[trace[k].sim].minibatch_size
        IN (trace[k].op \in SimDataOps /\ arg.shape # None) =>
              /\ arg.shape[1][1] > 0
              /\ arg.shape[1][1] % mb = 0
              /\ trace[k].op = "step" => arg.shape[1][1] = mb

\* the auto-encoder's simulator has been passed the training set, the test
\* set and a slice of the test set
C20_Witness ==
    \E a, b, c \in 1..Len(trace) :
        /\ trace[a].op = "fit" /\ trace[a].args["data"].shape = Some(<<n_train, 1, n_in>>)
        /\ trace[b].op = "evaluate" /\ trace[b].args["data"].shape = Some(<<n_test, 1, n_in>>)
        /\ trace[c].op = "predict"
        /\ trace[c].args["data"].shape = Some(<<minibatch_size_tf, 1, n_in>>)
        /\ trace[c].sim = trace[a].sim
        /\ sims[trace[a].sim].minibatch_size = minibatch_size_tf

(***************************************************************************)
(* Claims about the vocabulary get_data builds (SpecGetData)               *)
(***************************************************************************)
\* the keys of n_items examples of pairs_per_item pairs each
RoleKeys(n_items, pairs_per_item) ==
    {RoleName(n, i) : n \in 0..(n_items - 1), i \in 0..(pairs_per_item - 1)}

FillerKeys(n_items, pairs_per_item) ==
    {FillerName(n, i) : n \in 0..(n_items - 1), i \in 0..(pairs_per_item - 1)}

TraceKeys(n_items) == {TraceName(n) : n \in 0..(n_items - 1)}

ExpectedKeys(n_items, pairs_per_item) ==
    RoleKeys(n_items, pairs_per_item) \cup FillerKeys(n_items, pairs_per_item)
        \cup TraceKeys(n_items)

\* the names are pairwise distinct, no key is in the vocabulary twice and
\* vocab.add never refuses TRACE_n; once get_data has returned the
\* vocabulary holds the n_items * (2 * pairs_per_item + 1) expected keys
VocabularyKeysDistinct ==
    /\ Cardinality(RoleKeys(gd.n_items, gd.pairs_per_item)) = gd.n_items * gd.pairs_per_item
    /\ Cardinality(FillerKeys(gd.n_items, gd.pairs_per_item)) = gd.n_items * gd.pairs_per_item
    /\ Cardinality(TraceKeys(gd.n_items)) = gd.n_items
    /\ Cardinality(ExpectedKeys(gd.n_items, gd.pairs_per_item))
          = gd.n_items * (2 * gd.pairs_per_item + 1)
    /\ \A j, k \in 1..Len(gd.vocab.keys) : j # k => gd.vocab.keys[j] # gd.vocab.keys[k]
    /\ Len(gd.vocab.vectors) = Len(gd.vocab.keys)
    /\ gd.status # "ValidationError"
    /\ gd.status \in {"loop", "returned"} =>
          Len(gd.vocab.keys) = gd.n * (2 * gd.pairs_per_item + 1)
    /\ gd.status = "returned" =>
          /\ Len(gd.vocab.keys) = gd.n_items * (2 * gd.pairs_per_item + 1)
          /\ {gd.vocab.keys[k] : k \in 1..Len(gd.vocab.keys)}
                = ExpectedKeys(gd.n_items, gd.pairs_per_item)

\* an iteration keeps every entry the vocabulary already holds, key and
\* vector, at its position
EarlierEntriesKept ==
    /\ Len(gd'.vocab.keys) >= Len(gd.vocab.keys)
    /\ \A k \in 1..Len(gd.vocab.keys) :
          /\ gd'.vocab.keys[k] = gd.vocab.keys[k]
          /\ gd'.vocab.vectors[k] = gd.vocab.vectors[k]

\* C21: get_data never adds a vocabulary key twice: ROLE_n_i, FILLER_n_i
\* and TRACE_n are pairwise distinct over n < n_items, i < pairs_per_item,
\* so the returned vocabulary holds exactly n_items * (2 * pairs_per_item
\* + 1) entries, and a later iteration leaves the entries of the earlier
\* examples unchanged.
C21_VocabularyKeysNeverAddedTwice ==
    []VocabularyKeysDistinct /\ [][EarlierEntriesKept]_vars

\* get_data has returned two examples of two pairs: ten keys
C21_Witness ==
    /\ gd.status = "returned"
    /\ gd.n_items = 2
    /\ gd.pairs_per_item = 2
    /\ Len(gd.vocab.keys) = 10
    /\ gd.vocab.keys[1] = RoleName(0, 0)
    /\ gd.vocab.keys[10] = TraceName(1)

(***************************************************************************)
(* Claims about the random draws of get_data (SpecGetData)                 *)
(***************************************************************************)
\* get_data run to its end from the state st
RECURSIVE GetDataRun(_)
GetDataRun(st) == IF st.status = "loop" THEN GetDataRun(GetDataIter(st)) ELSE st

\* what a finished call hands back: traces, cues, targets, vocab, or the
\* exception that ended it
Outcome(st) ==
    [status |-> st.status, traces |-> st.traces, cues |-> st.cues,
     targets |-> st.targets, vocab |-> st.vocab]

\* the outcome of a call with these arguments made when the module-level
\* generator is in state g
OutcomeOf(n_items, pairs_per_item, vec_d, vocab_seed, g) ==
    Outcome(GetDataRun(GetDataInit(n_items, pairs_per_item, vec_d, vocab_seed, g)))

\* a finished call has the outcome of every other call with the same four
\* arguments, whatever state the module-level generator was in
SameArgumentsSameOutcome ==
    gd.status # "loop" =>
        \A g \in GlobalStates :
            OutcomeOf(gd.n_items, gd.pairs_per_item, gd.vec_d, gd.vocab_seed, g) = Outcome(gd)

\* an iteration does not advance the module-level generator
GlobalStateKept == gd'.np_random = gd.np_random

\* C22: get_data is deterministic: two calls with the same (n_items,
\* pairs_per_item, vec_d, vocab_seed) return identical traces, cues,
\* targets and vocabulary; every draw comes from the generator seeded with
\* vocab_seed, and the global random state is neither read nor changed.
C22_GetDataDeterministic ==
    []SameArgumentsSameOutcome /\ [][GlobalStateKept]_vars

\* a call made with the module-level generator in another state than the
\* one a generator seeded with vocab_seed starts in has returned two
\* examples; another seed would have given other data
C22_Witness ==
    /\ gd.status = "returned"
    /\ gd.n_items = 2
    /\ gd.pairs_per_item = 2
    /\ gd.vec_d = 2
    /\ gd.np_random # RandomState(gd.vocab_seed)
    /\ Len(gd.cue_idx) = 2
    /\ \E seed \in 0..MaxSeed :
          OutcomeOf(gd.n_items, gd.pairs_per_item, gd.vec_d, seed, gd.np_random) # Outcome(gd)

(***************************************************************************)
(* Claims about get_data called without pairs or without items             *)
(* (SpecGetData)                                                           *)
(***************************************************************************)
\* the exceptions that end get_data
GetDataErrors == {"SyntaxError", "ValueError", "ValidationError"}

\* a call with no pairs and at least one item never returns and never gets
\* past its first iteration; a call with no items has returned arrays
\* without rows and a vocabulary without keys
NoPairsNeverReturns ==
    /\ (gd.pairs_per_item = 0 /\ gd.n_items >= 1) =>
          /\ gd.status \in {"loop"} \cup GetDataErrors
          /\ gd.n = 0
          /\ gd.cue_idx = <<>>
    /\ gd.n_items = 0 =>
          /\ gd.status = "returned"
          /\ gd.traces = <<>> /\ gd.cues = <<>> /\ gd.targets = <<>>
          /\ gd.vocab.keys = <<>> /\ gd.vocab.vectors = <<>>

\* the first iteration of a call with no pairs ends in an exception
NoPairsFirstIterationFails ==
    (gd.pairs_per_item = 0 /\ gd.status = "loop") => gd'.status \in GetDataErrors

\* C23: get_data with pairs_per_item = 0 and n_items >= 1 does not return
\* data: it fails with an error in the first iteration instead of
\* returning zero-filled cues and targets; with n_items = 0 it returns
\* empty arrays and an empty vocabulary without error.
C23_NoPairsFailsNoItemsReturnsEmpty ==
    []NoPairsNeverReturns /\ [][NoPairsFirstIterationFails]_vars

\* a call for two items without pairs has ended in its first iteration
\* with an exception, its arrays still zero
C23_Witness ==
    /\ gd.n_items = 2
    /\ gd.pairs_per_item = 0
    /\ gd.status \in GetDataErrors
    /\ gd.n = 0
    /\ gd.cues = ZerosArray(2, gd.vec_d)
====
